---- MODULE Spec2Model ----
(***************************************************************************)
(* State-machine model of the Schrodinger's Cats claim/doubt game:         *)
(* the rules module (claim_strength, is_stronger, check_claim_is_true) and *)
(* the environment SchCatsEnv (reset_match, reset_round, step,             *)
(* _snapshot_finished_round, last_round_obs).                              *)
(*                                                                         *)
(* Python values are modelled as follows.  Optional[T] is a sequence of    *)
(* length 0 (None) or 1 (the value).  A list is a sequence; Python index i *)
(* is position i+1.  A raised exception is a return record with            *)
(* ok = FALSE; the environment's fields are then whatever the handler had  *)
(* written before the raise.                                               *)
(***************************************************************************)
EXTENDS Integers, Sequences, FiniteSets, TLC

\* ---------------------------------------------------------------- bounds
\* Cards dealt to each player (the program deals 6).
HandSize == 2
\* Claim quantities offered to step are 1..MaxQty.
MaxQty == 2
\* Longest reveal_idxs tuple offered to step.
MaxReveal == 2
\* Number of distinct shuffles make_deck can return.
NumShuffles == 2
\* Claim events allowed in one round's history.
MaxClaims == 2
\* Largest rounds_per_match given to the constructor.
MaxRounds == 2
\* Accepted Doubt steps allowed after the match has reported match_done.
MaxOverrun == 1
\* Claim quantities given to the rule functions on their own are 1..MaxRuleQty.
MaxRuleQty == 5

\* The rounds of the match in which the first-order agent's traits are followed.
TraitRounds == 3

\* The largest quantity _all_legal_claims enumerates (range(1, 13)).
MaxLegalQty == 12

\* ---------------------------------------------------------------- cards
ALIVE == "alive"
DEAD == "dead"
EMPTY == "empty"
HUP == "hup"

Card == {ALIVE, DEAD, EMPTY, HUP}
QState == {ALIVE, DEAD, EMPTY}

Players == {0, 1}

None == <<>>
Some(x) == <<x>>

\* The top of the deck as one shuffle leaves it, read cyclically.  Every
\* window of 2 * HandSize cards is a sub-multiset of the 20/20/8/4 deck.
DeckOrder ==
  <<ALIVE, ALIVE, DEAD, HUP, EMPTY, DEAD, HUP, ALIVE, EMPTY, DEAD, ALIVE, DEAD>>

\* make_deck(rng): the shuffled deck (its first 2 * HandSize cards), one of
\* NumShuffles orders the seeded generator can produce.
make_deck(k) ==
  [i \in 1..(2 * HandSize) |-> DeckOrder[((i + k - 1) % Len(DeckOrder)) + 1]]

Shuffles == 0..(NumShuffles - 1)

\* ---------------------------------------------------------------- rules
Claim == [qty : 1..MaxQty, qstate : QState]

\* A strength key without the tie-breaking tier.
claim_strength_no_tier(c) ==
  IF c.qstate = EMPTY THEN <<2 * c.qty, 0>> ELSE <<c.qty, 0>>

\* A strength key in which EMPTY does not count double.
claim_strength_empty_single(c) ==
  IF c.qstate = EMPTY THEN <<c.qty, 2>>
  ELSE IF c.qstate = ALIVE THEN <<c.qty, 1>>
  ELSE <<c.qty, 0>>

\* claim_strength(c)
claim_strength(c) ==
  IF c.qstate = EMPTY THEN <<2 * c.qty, 2>>
  ELSE IF c.qstate = ALIVE THEN <<c.qty, 1>>
  ELSE <<c.qty, 0>>

\* Python's tuple comparison a > b on pairs of integers.
TupleGreater(a, b) == a[1] > b[1] \/ (a[1] = b[1] /\ a[2] > b[2])

\* A comparison that also accepts a claim of equal strength.
is_stronger_weak(new, old) == ~TupleGreater(claim_strength(old), claim_strength(new))

\* is_stronger(new, old)
is_stronger(new, old) == TupleGreater(claim_strength(new), claim_strength(old))

\* The two nested loops of check_claim_is_true over one hand: acc is
\* <<cnt_target, cnt_hup>> and i the position of the next card.
RECURSIVE CountHand(_, _, _, _)
CountHand(hand, target, i, acc) ==
  IF i > Len(hand) THEN acc
  ELSE IF hand[i] = HUP THEN CountHand(hand, target, i + 1, <<acc[1], acc[2] + 1>>)
  ELSE IF hand[i] = target THEN CountHand(hand, target, i + 1, <<acc[1] + 1, acc[2]>>)
  ELSE CountHand(hand, target, i + 1, acc)

\* An adjudication that does not count HUP cards.
check_claim_no_hup(claim, all_hands) ==
  LET c0 == CountHand(all_hands[0], claim.qstate, 1, <<0, 0>>)
      c1 == CountHand(all_hands[1], claim.qstate, 1, c0)
  IN c1[1] >= claim.qty

\* An adjudication that counts every card of the first hand only.
check_claim_first_hand(claim, all_hands) ==
  LET c0 == CountHand(all_hands[0], claim.qstate, 1, <<0, 0>>)
  IN (c0[1] + c0[2]) >= claim.qty

\* check_claim_is_true(claim, all_hands)
check_claim_is_true(claim, all_hands) ==
  LET c0 == CountHand(all_hands[0], claim.qstate, 1, <<0, 0>>)
      c1 == CountHand(all_hands[1], claim.qstate, 1, c0)
  IN (c1[1] + c1[2]) >= claim.qty

\* ---------------------------------------------------------------- state
VARIABLES
  hands,              \* self.hands: None before the first deal, else [0..1 -> hand]
  public,             \* self.public: None or the live PublicState
  scores,             \* self.scores
  last_round_public,  \* self.last_round_public: None or a PublicState
  last_round_hands,   \* self.last_round_hands: None or the hands of that round
  rounds_per_match,   \* self.rounds_per_match
  ret,                \* what the last call returned or raised
  listed,             \* per player, the positions listed by each of its
                      \* accepted MakeClaim steps of the live round
  agents,             \* per seat, the fields of the agent object seated there
  play                \* the position and locals of a running play_match

vars == <<hands, public, scores, last_round_public, last_round_hands,
          rounds_per_match, ret, listed, agents, play>>

PublicEvent(pid, kind, claim, revealed_count) ==
  [pid |-> pid, kind |-> kind, claim |-> claim, revealed_count |-> revealed_count]

PublicState(current_claim, revealed, turn, round_idx, history) ==
  [current_claim |-> current_claim, revealed |-> revealed, turn |-> turn,
   round_idx |-> round_idx, history |-> history]

\* The environment's fields as one record, so that a handler is a function
\* from the fields before the call to the fields after it.
Env ==
  [hands |-> hands, public |-> public, scores |-> scores,
   last_round_public |-> last_round_public, last_round_hands |-> last_round_hands,
   rounds_per_match |-> rounds_per_match]

\* ---------------------------------------------------------------- actions
Doubt == [type |-> "Doubt"]
MakeClaim(claim, reveal_idxs) ==
  [type |-> "MakeClaim", claim |-> claim, reveal_idxs |-> reveal_idxs]

RevealIdx == (-1)..HandSize

RECURSIVE SeqsUpTo(_, _)
SeqsUpTo(S, n) ==
  IF n = 0 THEN {<<>>}
  ELSE LET shorter == SeqsUpTo(S, n - 1)
       IN shorter \cup {Append(s, x) : s \in {t \in shorter : Len(t) = n - 1}, x \in S}

RevealTuples == SeqsUpTo(RevealIdx, MaxReveal)

Actions == {Doubt} \cup {MakeClaim(c, r) : c \in Claim, r \in RevealTuples}

\* ---------------------------------------------------------------- returns
Returned(winner, match_done) ==
  [ok |-> TRUE, call |-> "step", winner |-> winner, match_done |-> match_done]
Raised(kind, msg, collected) ==
  [ok |-> FALSE, call |-> "step", kind |-> kind, msg |-> msg, collected |-> collected]

\* ---------------------------------------------------------------- SchCatsEnv
\* __init__(rounds_per_match, seed)
Construct(rounds) ==
  /\ rounds_per_match = rounds
  /\ hands = None
  /\ public = None
  /\ scores = [p \in Players |-> 0]
  /\ last_round_public = None
  /\ last_round_hands = None
  /\ ret = [ok |-> TRUE, call |-> "init"]
  /\ listed = [p \in Players |-> <<>>]

\* No agent is seated and no play_match is running.
Unseated ==
  /\ agents = [p \in Players |-> [kind |-> "none"]]
  /\ play = [pc |-> "idle"]

\* An environment for one-round matches.
Init == Construct(1) /\ Unseated

\* An environment for matches of 1..MaxRounds rounds.
InitMatch == \E rounds \in 1..MaxRounds : Construct(rounds) /\ Unseated

\* reset_round(round_idx, starting_player) on the fields e, with deck the
\* result of make_deck.
reset_round(e, round_idx, starting_player, deck) ==
  [e EXCEPT
    !.hands = Some([p \in Players |->
                 IF p = 0 THEN SubSeq(deck, 1, HandSize)
                 ELSE SubSeq(deck, HandSize + 1, 2 * HandSize)]),
    !.public = Some(PublicState(None, [p \in Players |-> <<>>],
                                starting_player, round_idx, <<>>))]

\* A reset_match that forgets to clear the snapshot.
reset_match_keep_snapshot(e, deck) ==
  reset_round([e EXCEPT !.scores = [p \in Players |-> 0]], 0, 0, deck)

\* reset_match()
reset_match(e, deck) ==
  reset_round([e EXCEPT !.scores = [p \in Players |-> 0],
                        !.last_round_public = None,
                        !.last_round_hands = None],
              0, 0, deck)

\* A snapshot of the round as it was before its last event was logged.
snapshot_before_last_event(e) ==
  LET pub == e.public[1]
  IN [e EXCEPT
       !.last_round_hands = Some([p \in Players |-> e.hands[1][p]]),
       !.last_round_public =
         Some(PublicState(pub.current_claim,
                          [p \in Players |-> pub.revealed[p]],
                          pub.turn, pub.round_idx,
                          SubSeq(pub.history, 1, Len(pub.history) - 1)))]

\* _snapshot_finished_round()
snapshot_finished_round(e) ==
  LET pub == e.public[1]
  IN [e EXCEPT
       !.last_round_hands = Some([p \in Players |-> e.hands[1][p]]),
       !.last_round_public =
         Some(PublicState(pub.current_claim,
                          [p \in Players |-> pub.revealed[p]],
                          pub.turn, pub.round_idx, pub.history))]

\* A scoring that credits the round to both players.
add_win_both(sc, winner) == [p \in Players |-> sc[p] + 1]

\* self.scores[winner] += 1
add_win(sc, winner) == [sc EXCEPT ![winner] = @ + 1]

\* The winner of a doubted claim: the claimant if it is true, else the doubter.
doubt_winner(pid, truth) == IF truth THEN 1 - pid ELSE pid

\* A redeal that always lets player 0 start.
starting_player_zero(next_round) == 0

\* The starting player of a round entered from step.
starting_player(next_round) == next_round % 2

\* A Doubt branch that logs the doubt event before it checks for a claim.
step_doubt_log_first(e, pid, deck) ==
  LET pub == e.public[1]
      claim == IF pub.current_claim = None THEN None ELSE pub.current_claim[1]
      logged == [e EXCEPT !.public =
                   Some([pub EXCEPT !.history =
                           Append(@, PublicEvent(pid, "doubt", claim, 0))])]
  IN IF pub.current_claim = None
     THEN [env |-> logged,
           ret |-> Raised("AssertionError", "Cannot doubt before any claim.", 0)]
     ELSE
       LET truth == check_claim_is_true(claim, e.hands[1])
           winner == IF truth THEN 1 - pid ELSE pid
           scored == [logged EXCEPT !.scores[winner] = @ + 1]
           snapped == [scored EXCEPT
                         !.last_round_hands = e.hands,
                         !.last_round_public = scored.public]
           next_round == pub.round_idx + 1
       IN IF next_round >= e.rounds_per_match
          THEN [env |-> snapped, ret |-> Returned(Some(winner), TRUE)]
          ELSE [env |-> [snapped EXCEPT
                           !.hands = Some([p \in Players |->
                              IF p = 0 THEN SubSeq(deck, 1, HandSize)
                              ELSE SubSeq(deck, HandSize + 1, 2 * HandSize)]),
                           !.public = Some(PublicState(None, [p \in Players |-> <<>>],
                                                       next_round % 2, next_round, <<>>))],
                ret |-> Returned(Some(winner), FALSE)]

\* step, Doubt branch (the turn has been checked).
step_doubt(e, pid, deck) ==
  LET pub == e.public[1]
  IN IF pub.current_claim = None
     THEN [env |-> e,
           ret |-> Raised("AssertionError", "Cannot doubt before any claim.", 0)]
     ELSE
       LET claim == pub.current_claim[1]
           logged == [e EXCEPT !.public =
                        Some([pub EXCEPT !.history =
                                Append(@, PublicEvent(pid, "doubt", claim, 0))])]
           truth == check_claim_is_true(claim, e.hands[1])
           winner == doubt_winner(pid, truth)
           scored == [logged EXCEPT !.scores = add_win(@, winner)]
           snapped == snapshot_finished_round(scored)
           next_round == pub.round_idx + 1
       IN IF next_round >= e.rounds_per_match
          THEN [env |-> snapped, ret |-> Returned(Some(winner), TRUE)]
          ELSE [env |-> reset_round(snapped, next_round,
                                    starting_player(next_round), deck),
                ret |-> Returned(Some(winner), FALSE)]

\* Python's "card in list".
InList(card, list) == \E j \in 1..Len(list) : list[j] = card

\* A reveal loop that puts each card into the public evidence as soon as it
\* has been validated.
RECURSIVE reveal_loop_eager(_, _, _, _, _)
reveal_loop_eager(e, pid, action, i, revealed_cards) ==
  IF i > Len(action.reveal_idxs)
  THEN [raised |-> None, revealed_cards |-> <<>>, env |-> e]
  ELSE
    LET idx == action.reveal_idxs[i]
        hand == e.hands[1][pid]
    IN IF idx < 0 \/ idx >= Len(hand)
       THEN [raised |-> Some("Bad reveal index."),
             revealed_cards |-> revealed_cards, env |-> e]
       ELSE
         LET card == hand[idx + 1]
             shown == [e EXCEPT !.public =
                         Some([e.public[1] EXCEPT !.revealed[pid] = Append(@, card)])]
         IN IF \E j \in 1..Len(e.public[1].revealed[pid]) :
                  e.public[1].revealed[pid][j] = card
            THEN reveal_loop_eager(e, pid, action, i + 1, revealed_cards)
            ELSE IF ~(card = HUP \/ card = action.claim.qstate)
            THEN [raised |-> Some("Revealed card does not support claim."),
                  revealed_cards |-> revealed_cards, env |-> e]
            ELSE reveal_loop_eager(shown, pid, action, i + 1,
                                   Append(revealed_cards, card))

\* A reveal loop that raises on a card that is already face-up.
RECURSIVE reveal_loop_strict(_, _, _, _, _)
reveal_loop_strict(e, pid, action, i, revealed_cards) ==
  IF i > Len(action.reveal_idxs)
  THEN [raised |-> None, revealed_cards |-> revealed_cards, env |-> e]
  ELSE
    LET idx == action.reveal_idxs[i]
        hand == e.hands[1][pid]
    IN IF idx < 0 \/ idx >= Len(hand)
       THEN [raised |-> Some("Bad reveal index."),
             revealed_cards |-> revealed_cards, env |-> e]
       ELSE
         LET card == hand[idx + 1]
         IN IF InList(card, e.public[1].revealed[pid])
            THEN [raised |-> Some("Card already revealed."),
                  revealed_cards |-> revealed_cards, env |-> e]
            ELSE IF ~(card = HUP \/ card = action.claim.qstate)
            THEN [raised |-> Some("Revealed card does not support claim."),
                  revealed_cards |-> revealed_cards, env |-> e]
            ELSE reveal_loop_strict(e, pid, action, i + 1,
                                    Append(revealed_cards, card))

\* The reveal loop of step's MakeClaim branch from position i of
\* action.reveal_idxs on, with the local list revealed_cards.  The result
\* holds the message of the ValueError raised (or None), the local list and
\* the environment's fields as the loop leaves them.
RECURSIVE reveal_loop(_, _, _, _, _)
reveal_loop(e, pid, action, i, revealed_cards) ==
  IF i > Len(action.reveal_idxs)
  THEN [raised |-> None, revealed_cards |-> revealed_cards, env |-> e]
  ELSE
    LET idx == action.reveal_idxs[i]
        hand == e.hands[1][pid]
    IN IF idx < 0 \/ idx >= Len(hand)
       THEN [raised |-> Some("Bad reveal index."),
             revealed_cards |-> revealed_cards, env |-> e]
       ELSE
         LET card == hand[idx + 1]
         IN IF InList(card, e.public[1].revealed[pid])
            THEN reveal_loop(e, pid, action, i + 1, revealed_cards)
            ELSE IF ~(card = HUP \/ card = action.claim.qstate)
            THEN [raised |-> Some("Revealed card does not support claim."),
                  revealed_cards |-> revealed_cards, env |-> e]
            ELSE reveal_loop(e, pid, action, i + 1, Append(revealed_cards, card))

\* A claim that leaves the turn with the claimant.
next_turn_same(pid) == pid

\* The turn after an accepted claim by pid.
next_turn(pid) == 1 - pid

\* step, MakeClaim branch (the turn has been checked).
step_make_claim(e, pid, action) ==
  LET pub == e.public[1]
  IN IF pub.current_claim # None /\ ~is_stronger(action.claim, pub.current_claim[1])
     THEN [env |-> e,
           ret |-> Raised("ValueError", "Claim not stronger than current claim.", 0)]
     ELSE
       LET loop == reveal_loop(e, pid, action, 1, <<>>)
           lpub == loop.env.public[1]
       IN IF loop.raised # None
          THEN [env |-> loop.env,
                ret |-> Raised("ValueError", loop.raised[1], Len(loop.revealed_cards))]
          ELSE
            [env |-> [loop.env EXCEPT !.public =
                        Some([lpub EXCEPT
                          !.history = Append(@, PublicEvent(pid, "claim", action.claim,
                                                            Len(loop.revealed_cards))),
                          !.revealed[pid] = @ \o loop.revealed_cards,
                          !.current_claim = Some(action.claim),
                          !.turn = next_turn(pid)])],
             ret |-> Returned(None, FALSE)]

\* step(pid, action); deck is what make_deck returns if the step redeals.
step(e, pid, action, deck) ==
  IF e.public = None
  THEN [env |-> e, ret |-> Raised("AssertionError", "public is None", 0)]
  ELSE IF pid # e.public[1].turn
  THEN [env |-> e, ret |-> Raised("AssertionError", "Not your turn.", 0)]
  ELSE IF action.type = "Doubt" THEN step_doubt(e, pid, deck)
  ELSE IF action.type = "MakeClaim" THEN step_make_claim(e, pid, action)
  ELSE [env |-> e, ret |-> Raised("ValueError", "Unknown action type.", 0)]

\* The categories in the order _all_legal_claims visits them.
QStateOrder == <<DEAD, ALIVE, EMPTY>>

\* Every claim the two nested loops of _all_legal_claims build, in order.
all_claims ==
  [n \in 1..(MaxLegalQty * Len(QStateOrder)) |->
     [qty |-> ((n - 1) \div Len(QStateOrder)) + 1,
      qstate |-> QStateOrder[((n - 1) % Len(QStateOrder)) + 1]]]

\* A maximal reveal that leaves the HUP cards out.
matching_idxs_no_hup(hand, c) ==
  LET Supports(i) == hand[i + 1] = c.qstate
  IN SelectSeq([i \in 1..Len(hand) |-> i - 1], Supports)

\* The maximal reveal of _all_legal_claims: the Python indices, in order, of
\* the cards of the hand that are HUP or of the claimed category.
matching_idxs(hand, c) ==
  LET Supports(i) == hand[i + 1] = HUP \/ hand[i + 1] = c.qstate
  IN SelectSeq([i \in 1..Len(hand) |-> i - 1], Supports)

\* _all_legal_claims(pid, base_claim): the candidates, each with no reveal
\* and with the maximal reveal.
all_legal_claims(e, pid, base_claim) ==
  LET Candidate(c) == base_claim = None \/ is_stronger(c, base_claim[1])
      candidates == SelectSeq(all_claims, Candidate)
  IN [n \in 1..(2 * Len(candidates)) |->
        LET c == candidates[(n + 1) \div 2]
        IN IF n % 2 = 1 THEN MakeClaim(c, <<>>)
           ELSE MakeClaim(c, matching_idxs(e.hands[1][pid], c))]

\* legal_actions(pid)
legal_actions(e, pid) ==
  IF e.public[1].current_claim = None
  THEN all_legal_claims(e, pid, None)
  ELSE <<Doubt>> \o all_legal_claims(e, pid, e.public[1].current_claim)

\* An observation that hands over both hands.
obs_both_hands(e, pid) ==
  IF e.public = None
  THEN [ok |-> FALSE, call |-> "_obs", kind |-> "AssertionError",
        msg |-> "", collected |-> 0]
  ELSE [ok |-> TRUE, call |-> "_obs",
        obs |-> [my_id |-> pid, my_hand |-> e.hands[1][0] \o e.hands[1][1],
                 public |-> e.public[1]]]

\* _obs(pid)
obs(e, pid) ==
  IF e.public = None
  THEN [ok |-> FALSE, call |-> "_obs", kind |-> "AssertionError",
        msg |-> "", collected |-> 0]
  ELSE [ok |-> TRUE, call |-> "_obs",
        obs |-> [my_id |-> pid, my_hand |-> e.hands[1][pid],
                 public |-> e.public[1]]]

\* last_round_obs(pid)
last_round_obs(e, pid) ==
  IF e.last_round_public = None \/ e.last_round_hands = None
  THEN [ok |-> FALSE, call |-> "last_round_obs", kind |-> "AssertionError",
        msg |-> "No finished round snapshot available yet.", collected |-> 0]
  ELSE [ok |-> TRUE, call |-> "last_round_obs",
        obs |-> [my_id |-> pid, my_hand |-> e.last_round_hands[1][pid],
                 public |-> e.last_round_public[1]]]

\* ---------------------------------------------------------------- transitions
\* The fields after a call are those the handler computed.
Install(e) ==
  /\ hands' = e.hands
  /\ public' = e.public
  /\ scores' = e.scores
  /\ last_round_public' = e.last_round_public
  /\ last_round_hands' = e.last_round_hands
  /\ rounds_per_match' = e.rounds_per_match

\* The hand positions a reveal tuple lists.
Positions(idxs) == {idxs[n] : n \in 1..Len(idxs)}

\* listed after step(pid, action) gave r: an accepted MakeClaim adds the
\* positions it listed, a Doubt that deals the next round starts afresh, and
\* a rejected call or a Doubt that ends the match leaves the round as it is.
ListedAfter(r, pid, action) ==
  IF ~r.ret.ok THEN listed
  ELSE IF action.type = "Doubt"
       THEN (IF r.ret.match_done THEN listed ELSE [p \in Players |-> <<>>])
       ELSE [listed EXCEPT ![pid] = Append(@, Positions(action.reveal_idxs))]

\* reset_match(), called at any time; ret notes whether the call cleared a
\* snapshot.
ResetMatch ==
  \E k \in Shuffles :
    /\ Install(reset_match(Env, make_deck(k)))
    /\ ret' = [ok |-> TRUE, call |-> "reset_match",
               cleared |-> last_round_public # None]
    /\ listed' = [p \in Players |-> <<>>]
    /\ UNCHANGED <<agents, play>>

\* The number of claim events in a history.
RECURSIVE NumClaims(_)
NumClaims(h) ==
  IF h = <<>> THEN 0
  ELSE (IF h[1].kind = "claim" THEN 1 ELSE 0) + NumClaims(Tail(h))

\* The match has reported match_done and has already taken MaxOverrun
\* further Doubt steps.
Exhausted == scores[0] + scores[1] >= rounds_per_match + MaxOverrun

\* The round's history may take one more claim event.
RoomForClaim == public # None => NumClaims(public[1].history) < MaxClaims

\* step(pid, Doubt()) by either player, accepted or rejected.
StepDoubt ==
  \E pid \in Players, k \in Shuffles :
    LET r == step(Env, pid, Doubt, make_deck(k))
    IN /\ ~Exhausted
       /\ Install(r.env)
       /\ ret' = r.ret
       /\ listed' = ListedAfter(r, pid, Doubt)
       /\ UNCHANGED <<agents, play>>

\* step(pid, MakeClaim(c, idxs)) by either player, accepted or rejected.
StepMakeClaim ==
  \E pid \in Players, c \in Claim, idxs \in RevealTuples :
    LET r == step(Env, pid, MakeClaim(c, idxs), make_deck(0))
    IN /\ RoomForClaim
       /\ Install(r.env)
       /\ ret' = r.ret
       /\ listed' = ListedAfter(r, pid, MakeClaim(c, idxs))
       /\ UNCHANGED <<agents, play>>

\* last_round_obs(pid); ret is the observation or the AssertionError.
LastRoundObs ==
  \E pid \in Players :
    /\ ret' = last_round_obs(Env, pid)
    /\ UNCHANGED <<hands, public, scores, last_round_public, last_round_hands,
                   rounds_per_match, listed, agents, play>>

\* The actions of a list that stay within the bound on quantities.
Offered(list) ==
  {a \in {list[n] : n \in 1..Len(list)} : a.type = "Doubt" \/ a.claim.qty <= MaxQty}

\* A step with one of the actions legal_actions offers the caller.
StepLegalAction ==
  \E pid \in Players :
    /\ public # None
    /\ \E action \in Offered(legal_actions(Env, pid)) :
         \E k \in (IF action.type = "Doubt" THEN Shuffles ELSE {0}) :
           LET r == step(Env, pid, action, make_deck(k))
           IN /\ IF action.type = "Doubt" THEN ~Exhausted ELSE RoomForClaim
              /\ Install(r.env)
              /\ ret' = r.ret
              /\ listed' = ListedAfter(r, pid, action)
              /\ UNCHANGED <<agents, play>>

\* One round, every claim and every reveal tuple within the bounds.
Next == ResetMatch \/ StepDoubt \/ StepMakeClaim \/ LastRoundObs

Spec == Init /\ [][Next]_vars

\* Whole matches, played with the actions legal_actions offers.
NextMatch == ResetMatch \/ StepDoubt \/ StepLegalAction \/ LastRoundObs

SpecMatch == InitMatch /\ [][NextMatch]_vars

\* _obs(pid); ret is the observation or the AssertionError.
Observe ==
  \E pid \in Players :
    /\ ret' = obs(Env, pid)
    /\ UNCHANGED <<hands, public, scores, last_round_public, last_round_hands,
                   rounds_per_match, listed, agents, play>>

\* Whole matches in which the players are handed their observations.
NextObs == ResetMatch \/ StepDoubt \/ StepLegalAction \/ LastRoundObs \/ Observe

SpecObs == InitMatch /\ [][NextObs]_vars

\* ------------------------------------------------------------- rules alone
\* The claims and the hands the rule functions are applied to.
RuleClaim == [qty : 1..MaxRuleQty, qstate : QState]
RuleHands == {h \in SeqsUpTo(Card, HandSize) : Len(h) = HandSize}

\* No environment behind the calls: the fields as the constructor leaves
\* them, except that hands may hold the hands a call is given.
Detached(table) ==
  /\ hands = table
  /\ public = None
  /\ scores = [p \in Players |-> 0]
  /\ last_round_public = None
  /\ last_round_hands = None
  /\ rounds_per_match = 1
  /\ listed = [p \in Players |-> <<>>]
  /\ ret = [ok |-> TRUE, call |-> "init"]
  /\ Unseated

InitStrength == Detached(None)

\* Any two hands on the table.
InitTruth == \E h \in [Players -> RuleHands] : Detached(Some(h))

\* claim_strength(c); ret is the key it returns.
ClaimStrength ==
  \E c \in RuleClaim :
    /\ ret' = [ok |-> TRUE, call |-> "claim_strength", c |-> c,
               result |-> claim_strength(c)]
    /\ UNCHANGED <<hands, public, scores, last_round_public, last_round_hands,
                   rounds_per_match, listed, agents, play>>

\* is_stronger(new, old)
IsStronger ==
  \E new \in RuleClaim, old \in RuleClaim :
    /\ ret' = [ok |-> TRUE, call |-> "is_stronger", new |-> new, old |-> old,
               result |-> is_stronger(new, old)]
    /\ UNCHANGED <<hands, public, scores, last_round_public, last_round_hands,
                   rounds_per_match, listed, agents, play>>

\* check_claim_is_true(claim, all_hands) on the hands on the table.
CheckClaimIsTrue ==
  \E claim \in RuleClaim :
    /\ ret' = [ok |-> TRUE, call |-> "check_claim_is_true", claim |-> claim,
               result |-> check_claim_is_true(claim, hands[1])]
    /\ UNCHANGED <<hands, public, scores, last_round_public, last_round_hands,
                   rounds_per_match, listed, agents, play>>

\* The ordering of claims.
NextStrength == ClaimStrength \/ IsStronger

SpecStrength == InitStrength /\ [][NextStrength]_vars

\* The adjudication of a claim against two hands.
NextTruth == CheckClaimIsTrue

SpecTruth == InitTruth /\ [][NextTruth]_vars
\* ------------------------------------------------------------- inference
\* A Python container with its type: reset_round builds each player's
\* evidence as a list, and {} is a dict.
PyList(items) == [type |-> "list", items |-> items]
PyDict(items) == [type |-> "dict", items |-> items]

\* pub.revealed.get(opp, {}): the entry under the key opp, the default {}
\* when the key is absent.
revealed_get(revealed, opp) ==
  IF opp \in DOMAIN revealed THEN PyList(revealed[opp]) ELSE PyDict(<<>>)

\* x.values(): the values of a dict; a list has no attribute values.
values(x) ==
  IF x.type = "dict"
  THEN [ok |-> TRUE, items |-> x.items]
  ELSE [ok |-> FALSE, kind |-> "AttributeError",
        msg |-> "'list' object has no attribute 'values'"]

\* Exact fractions stand for the floats of the inference engine.
Rat(n, d) == [num |-> n, den |-> d]
RAdd(a, b) == Rat(a.num * b.den + b.num * a.den, a.den * b.den)
RSub(a, b) == Rat(a.num * b.den - b.num * a.den, a.den * b.den)
RMul(a, b) == Rat(a.num * b.num, a.den * b.den)
RLess(a, b) == a.num * b.den < b.num * a.den
REq(a, b) == a.num * b.den = b.num * a.den

\* The agents' class constants (HAND_SIZE is the number of cards dealt).
DECK_SIZE == 52
DECK_COUNTS == [c \in Card |-> CASE c = ALIVE -> 20 [] c = DEAD -> 20
                                 [] c = EMPTY -> 8 [] c = HUP -> 4]
HAND_SIZE == HandSize

\* math.comb(n, k) for 0 <= k <= n.
RECURSIVE comb(_, _)
comb(n, k) == IF k = 0 THEN 1 ELSE (comb(n - 1, k - 1) * n) \div k

\* _nCk(n, k)
nCk(n, k) == IF k < 0 \/ k > n THEN 0 ELSE comb(n, k)

\* The loop of _hypergeom_p_geq: the sum of the terms for k..n, over denom.
RECURSIVE hypergeom_sum(_, _, _, _)
hypergeom_sum(N, K, n, k) ==
  IF k > n THEN 0
  ELSE nCk(K, k) * nCk(N - K, n - k) + hypergeom_sum(N, K, n, k + 1)

\* _hypergeom_p_geq(N, K, n, kmin)
hypergeom_p_geq(N, K, n, kmin) ==
  IF kmin <= 0 THEN Rat(1, 1)
  ELSE IF kmin > n THEN Rat(0, 1)
  ELSE LET denom == nCk(N, n)
       IN IF denom = 0 THEN Rat(0, 1)
          ELSE Rat(hypergeom_sum(N, K, n, kmin), denom)

\* _support_counts_in_known(known, q) and _support_in_cards(cards, q)
support_counts_in_known(known, q) ==
  Cardinality({j \in 1..Len(known) : known[j] = HUP \/ known[j] = q})

\* _deck_support_total(q)
deck_support_total(q) == DECK_COUNTS[q] + DECK_COUNTS[HUP]

\* What _prob_claim_true and _prob_claim_true_my_view return or raise.
Estimated(name, p) == [ok |-> TRUE, call |-> name, result |-> p]
EstimateRaised(name, v) ==
  [ok |-> FALSE, call |-> name, kind |-> v.kind, msg |-> v.msg, collected |-> 0]

\* The body the two estimators share, from the known cards on.
estimate_from(name, my_hand, opp_revealed_cards, claim) ==
  LET known_cards == my_hand \o opp_revealed_cards
      known_support == support_counts_in_known(known_cards, claim.qstate)
      remaining_needed == claim.qty - known_support
      n_unknown == HAND_SIZE - Len(opp_revealed_cards)
      N == DECK_SIZE - Len(known_cards)
      total_support == deck_support_total(claim.qstate)
      K0 == total_support - known_support
      K == IF K0 < 0 THEN 0 ELSE IF K0 > N THEN N ELSE K0
  IN IF remaining_needed <= 0 THEN Estimated(name, Rat(1, 1))
     ELSE IF n_unknown <= 0 THEN Estimated(name, Rat(0, 1))
     ELSE IF N <= 0 THEN Estimated(name, Rat(0, 1))
     ELSE Estimated(name, hypergeom_p_geq(N, K, n_unknown, remaining_needed))

\* ToM0MemoryAgent._prob_claim_true(obs, claim)
prob_claim_true(o, claim) ==
  LET opp == 1 - o.my_id
      opp_revealed == values(revealed_get(o.public.revealed, opp))
  IN IF ~opp_revealed.ok THEN EstimateRaised("_prob_claim_true", opp_revealed)
     ELSE estimate_from("_prob_claim_true", o.my_hand, opp_revealed.items, claim)

\* ToM1Agent._prob_claim_true_my_view(obs, claim)
prob_claim_true_my_view(o, claim) ==
  LET opp == 1 - o.my_id
      opp_revealed_map == revealed_get(o.public.revealed, opp)
      opp_revealed == values(opp_revealed_map)
  IN IF ~opp_revealed.ok
     THEN EstimateRaised("_prob_claim_true_my_view", opp_revealed)
     ELSE estimate_from("_prob_claim_true_my_view", o.my_hand,
                        opp_revealed.items, claim)

\* ---------------------------------------------------------------- agents
\* ToM0MemoryAgent.__init__ and ToM1Agent.__init__: the fields of a new agent
\* (opponent_bluffiness is kept in hundredths).
NewToM0 == [kind |-> "tom0", last_memory |-> None]
NewToM1 ==
  [kind |-> "tom1", opponent_is_conservative |-> FALSE, opponent_bluffiness |-> 0,
   fallback_rounds_left |-> 0, used_fallback_this_round |-> FALSE,
   opp_doubted_last_round |-> FALSE, opp_doubted_two_rounds_ago |-> FALSE,
   fallback_actions_taken |-> 0, fallback_rounds_started |-> 0,
   fallback_trigger_events |-> 0]

\* What act returns or raises.
ActReturned(action) == [ok |-> TRUE, call |-> "act", action |-> action]
ActRaised(e) ==
  [ok |-> FALSE, call |-> "act", kind |-> e.kind, msg |-> e.msg, collected |-> 0]

\* The claims the loops "for qty in range(1, maxq + 1): for q in (DEAD,
\* ALIVE, EMPTY)" build, in order.
claims_in_order(maxq) ==
  [n \in 1..(maxq * Len(QStateOrder)) |->
     [qty |-> ((n - 1) \div Len(QStateOrder)) + 1,
      qstate |-> QStateOrder[((n - 1) % Len(QStateOrder)) + 1]]]

\* tuple(i for i, card in enumerate(my_hand) if card == Card.HUP or
\* card.value == best.qstate.value)
support_idxs(my_hand, best) ==
  LET Supports(i) == my_hand[i + 1] = HUP \/ my_hand[i + 1] = best.qstate
  IN SelectSeq([i \in 1..Len(my_hand) |-> i - 1], Supports)

\* The legal_stronger list of the agents.
legal_stronger_than(current) ==
  LET Stronger(c) == is_stronger(c, current)
  IN SelectSeq(claims_in_order(12), Stronger)

\* A scoring loop over candidates: sc[n] is the score of the n-th candidate
\* or what its estimate raised.  The loop stops at the first estimate that
\* raises; otherwise "if score > best_score" keeps the first of the highest.
loop_raises(sc) == \E n \in 1..Len(sc) : ~sc[n].ok
first_raised(sc) ==
  sc[CHOOSE n \in 1..Len(sc) : ~sc[n].ok /\ \A m \in 1..(n - 1) : sc[m].ok]
best_index(sc) ==
  CHOOSE n \in 1..Len(sc) :
    /\ \A m \in 1..(n - 1) : RLess(sc[m].score, sc[n].score)
    /\ \A m \in (n + 1)..Len(sc) : ~RLess(sc[n].score, sc[m].score)
Scored(score) == [ok |-> TRUE, score |-> score]

\* ToM0MemoryAgent.act(obs) for the agent with the given fields.
act0(agent, o) ==
  LET pub == o.public
      my_hand == o.my_hand
      conservative == IF agent.last_memory # None
                      THEN agent.last_memory[1].opponent_doubted ELSE FALSE
      doubt_threshold == IF conservative THEN Rat(55, 100) ELSE Rat(45, 100)
      Reveal(best) == IF conservative THEN <<>> ELSE support_idxs(my_hand, best)
  IN IF pub.current_claim = None
     THEN
       LET candidates == claims_in_order(6)
           Score(c) == LET e == prob_claim_true(o, c)
                       IN IF e.ok THEN Scored(RSub(e.result, Rat(2 * c.qty, 100)))
                          ELSE e
           sc == [n \in 1..Len(candidates) |-> Score(candidates[n])]
       IN IF loop_raises(sc) THEN ActRaised(first_raised(sc))
          ELSE LET best == candidates[best_index(sc)]
               IN ActReturned(MakeClaim(best, Reveal(best)))
     ELSE
       LET current == pub.current_claim[1]
           p_true == prob_claim_true(o, current)
           legal_stronger == legal_stronger_than(current)
           Score(c) ==
             LET e == prob_claim_true(o, c)
                 jump_penalty == IF c.qty >= current.qty
                                 THEN Rat(3 * (c.qty - current.qty), 100)
                                 ELSE Rat(1, 100)
                 size_penalty == Rat((IF conservative THEN 3 ELSE 2) * c.qty, 100)
             IN IF e.ok
                THEN Scored(RSub(RSub(e.result, jump_penalty), size_penalty))
                ELSE e
           sc == [n \in 1..Len(legal_stronger) |-> Score(legal_stronger[n])]
       IN IF ~p_true.ok THEN ActRaised(p_true)
          ELSE IF RLess(p_true.result, doubt_threshold) THEN ActReturned(Doubt)
          ELSE IF loop_raises(sc) THEN ActRaised(first_raised(sc))
          ELSE IF Len(sc) = 0
                  \/ RLess(sc[best_index(sc)].score,
                           IF conservative THEN Rat(10, 100) ELSE Rat(5, 100))
          THEN ActReturned(Doubt)
          ELSE LET best == legal_stronger[best_index(sc)]
               IN ActReturned(MakeClaim(best, Reveal(best)))

\* ToM1Agent._act_like_tom0(obs)
act_like_tom0(o) ==
  LET pub == o.public
  IN IF pub.current_claim = None
     THEN
       LET candidates == claims_in_order(7)
           Score(c) == LET e == prob_claim_true_my_view(o, c)
                       IN IF e.ok THEN Scored(RSub(e.result, Rat(2 * c.qty, 100)))
                          ELSE e
           sc == [n \in 1..Len(candidates) |-> Score(candidates[n])]
       IN IF loop_raises(sc) THEN ActRaised(first_raised(sc))
          ELSE ActReturned(MakeClaim(candidates[best_index(sc)], <<>>))
     ELSE
       LET current == pub.current_claim[1]
           p_true_current == prob_claim_true_my_view(o, current)
           legal_stronger == legal_stronger_than(current)
           base_strength == claim_strength(current)[1]
           Score(c) ==
             LET e == prob_claim_true_my_view(o, c)
                 gap == claim_strength(c)[1] - base_strength
             IN IF e.ok
                THEN Scored(RSub(RSub(e.result, Rat(15 * gap, 1000)),
                                 Rat(2 * c.qty, 100)))
                ELSE e
           sc == [n \in 1..Len(legal_stronger) |-> Score(legal_stronger[n])]
       IN IF ~p_true_current.ok THEN ActRaised(p_true_current)
          ELSE IF RLess(p_true_current.result, Rat(52, 100)) THEN ActReturned(Doubt)
          ELSE IF loop_raises(sc) THEN ActRaised(first_raised(sc))
          ELSE IF Len(sc) = 0 \/ RLess(sc[best_index(sc)].score, Rat(8, 100))
          THEN ActReturned(Doubt)
          ELSE ActReturned(MakeClaim(legal_stronger[best_index(sc)], <<>>))

\* max(lo, min(hi, x)) on fractions.
RClamp(lo, hi, x) == IF RLess(hi, x) THEN (IF RLess(hi, lo) THEN lo ELSE hi)
                     ELSE IF RLess(x, lo) THEN lo ELSE x

\* ToM1Agent._predict_opponent_doubt_prob, given the estimate p_true.
predict_opponent_doubt_prob(agent, p_true) ==
  LET base == RSub(RAdd(Rat(45, 100),
                        IF agent.opponent_is_conservative THEN Rat(15, 100)
                        ELSE Rat(0, 1)),
                   Rat(20 * agent.opponent_bluffiness, 10000))
      risk_adj == RSub(Rat(60, 100), p_true)
  IN RClamp(Rat(5, 100), Rat(95, 100), RAdd(base, risk_adj))

\* ToM1Agent.act(obs), the predictive policy (fallback_rounds_left = 0).
act_predictive(agent, o) ==
  LET pub == o.public
      my_hand == o.my_hand
  IN IF pub.current_claim = None
     THEN
       LET candidates == claims_in_order(7)
           Score(c) == LET e == prob_claim_true_my_view(o, c)
                       IN IF e.ok THEN Scored(RSub(e.result, Rat(2 * c.qty, 100)))
                          ELSE e
           sc == [n \in 1..Len(candidates) |-> Score(candidates[n])]
       IN IF loop_raises(sc) THEN ActRaised(first_raised(sc))
          ELSE LET best == candidates[best_index(sc)]
               IN ActReturned(MakeClaim(best, support_idxs(my_hand, best)))
     ELSE
       LET current == pub.current_claim[1]
           p_true_current == prob_claim_true_my_view(o, current)
           accept_threshold ==
             RSub(RAdd(Rat(50, 100), Rat(5 * agent.opponent_bluffiness, 10000)),
                  IF agent.opponent_is_conservative THEN Rat(3, 100) ELSE Rat(0, 1))
           legal_stronger == legal_stronger_than(current)
           Score(c) ==
             LET e == prob_claim_true_my_view(o, c)
                 p_doubt == predict_opponent_doubt_prob(agent, e.result)
                 immediate_ev == RMul(p_doubt, e.result)
                 strength_gap == claim_strength(c)[1] - claim_strength(current)[1]
                 continuation_bonus ==
                   RMul(RSub(Rat(1, 1), p_doubt),
                        RSub(e.result, Rat(15 * strength_gap, 1000)))
             IN IF e.ok THEN Scored(RAdd(immediate_ev, continuation_bonus)) ELSE e
           sc == [n \in 1..Len(legal_stronger) |-> Score(legal_stronger[n])]
       IN IF ~p_true_current.ok THEN ActRaised(p_true_current)
          ELSE IF RLess(p_true_current.result, accept_threshold)
          THEN ActReturned(Doubt)
          ELSE IF loop_raises(sc) THEN ActRaised(first_raised(sc))
          ELSE IF Len(sc) = 0 \/ RLess(sc[best_index(sc)].score, Rat(5, 100))
          THEN ActReturned(Doubt)
          ELSE LET best == legal_stronger[best_index(sc)]
               IN ActReturned(MakeClaim(best, support_idxs(my_hand, best)))

\* A variant that uses up the fallback round with the first fallback action.
act1_consuming(agent, o) ==
  IF agent.fallback_rounds_left > 0
  THEN [agent |-> [agent EXCEPT !.fallback_actions_taken = @ + 1,
                                !.used_fallback_this_round = TRUE,
                                !.fallback_rounds_left = @ - 1],
        ret |-> act_like_tom0(o)]
  ELSE [agent |-> agent, ret |-> act_predictive(agent, o)]

\* ToM1Agent.act(obs): the bookkeeping, then one of the two policies.
act1(agent, o) ==
  LET opening == o.public.current_claim = None
      a1 == IF opening THEN [agent EXCEPT !.used_fallback_this_round = FALSE]
            ELSE agent
      a2 == [a1 EXCEPT
               !.fallback_rounds_started = IF opening THEN @ + 1 ELSE @,
               !.fallback_actions_taken = @ + 1,
               !.used_fallback_this_round = TRUE]
  IN IF a1.fallback_rounds_left > 0
     THEN [agent |-> a2, ret |-> act_like_tom0(o)]
     ELSE [agent |-> a1, ret |-> act_predictive(a1, o)]

\* agent.act(obs) for the agent seated with the given fields.
act(agent, o) ==
  IF agent.kind = "tom0" THEN [agent |-> agent, ret |-> act0(agent, o)]
  ELSE act1(agent, o)

\* ------------------------------------------------------------ round memory
\* RoundMemory(opponent_doubted, opponent_evidence_revealed,
\* opponent_last_claim, opponent_last_claim_was_true)
RoundMemory(doubted, evidence, last_claim, was_true) ==
  [opponent_doubted |-> doubted,
   opponent_evidence_revealed |-> evidence,
   opponent_last_claim |-> last_claim,
   opponent_last_claim_was_true |-> was_true]

\* "for ev in reversed(history): if <test>: ...; break": the last event whose
\* position is in the set, None when the set is empty.
last_event(history, positions) ==
  IF positions = {} THEN None
  ELSE Some(history[CHOOSE i \in positions : \A j \in positions : j <= i])

\* sum(ev.revealed_count for ev in history if ev.pid == opp and ev.kind == "claim")
RECURSIVE sum_revealed(_, _)
sum_revealed(history, opp) ==
  IF history = <<>> THEN 0
  ELSE (IF history[1].pid = opp /\ history[1].kind = "claim"
        THEN history[1].revealed_count ELSE 0)
       + sum_revealed(Tail(history), opp)

\* A variant that adds the round's evidence to what the memory held.
observe_round_end_accumulating(agent, my_id, winner, last_obs) ==
  LET pub == last_obs.public
      opp == 1 - my_id
      opp_last == last_event(pub.history,
                             {i \in 1..Len(pub.history) : pub.history[i].pid = opp})
      before == IF agent.last_memory = None THEN 0
                ELSE agent.last_memory[1].opponent_evidence_revealed
  IN [agent EXCEPT !.last_memory =
        Some(RoundMemory(opp_last # None /\ opp_last[1].kind = "doubt",
                         before + sum_revealed(pub.history, opp),
                         pub.current_claim, None))]

\* ToM0MemoryAgent.observe_round_end(my_id, winner, last_obs): the agent's
\* fields after the call.
observe_round_end(agent, my_id, winner, last_obs) ==
  LET pub == last_obs.public
      opp == 1 - my_id
      opp_last == last_event(pub.history,
                             {i \in 1..Len(pub.history) : pub.history[i].pid = opp})
      opponent_doubted == opp_last # None /\ opp_last[1].kind = "doubt"
      opponent_evidence == sum_revealed(pub.history, opp)
      opponent_last_claim == pub.current_claim
      last_doubt == last_event(pub.history,
                               {i \in 1..Len(pub.history) : pub.history[i].kind = "doubt"})
      opponent_last_claim_was_true ==
        IF last_doubt # None /\ opponent_last_claim # None
        THEN Some(winner = 1 - last_doubt[1].pid)
        ELSE None
  IN [agent EXCEPT !.last_memory =
        Some(RoundMemory(opponent_doubted, opponent_evidence, opponent_last_claim,
                         opponent_last_claim_was_true))]

\* A variant that adds 0.15 without the cap at 1.
bluffiness_after_uncapped(bluffiness, by_opp, claim_true) ==
  IF by_opp /\ ~claim_true THEN bluffiness + 15
  ELSE IF by_opp /\ claim_true
  THEN (IF bluffiness - 8 < 0 THEN 0 ELSE bluffiness - 8)
  ELSE bluffiness

\* "if claimant == opp and not claim_true: min(1.0, bluffiness + 0.15)
\* elif claimant == opp and claim_true: max(0.0, bluffiness - 0.08)", in
\* hundredths; by_opp is claimant == opp.
bluffiness_after(bluffiness, by_opp, claim_true) ==
  IF by_opp /\ ~claim_true
  THEN (IF bluffiness + 15 > 100 THEN 100 ELSE bluffiness + 15)
  ELSE IF by_opp /\ claim_true
  THEN (IF bluffiness - 8 < 0 THEN 0 ELSE bluffiness - 8)
  ELSE bluffiness

\* ToM1Agent.observe_round_end(my_id, winner, last_obs): the agent's fields
\* after the call.
tom1_observe_round_end(agent, my_id, winner, last_obs) ==
  LET pub == last_obs.public
      opp == 1 - my_id
      left == IF agent.used_fallback_this_round /\ agent.fallback_rounds_left > 0
              THEN agent.fallback_rounds_left - 1 ELSE agent.fallback_rounds_left
      Events(kind) == {i \in 1..Len(pub.history) :
                         pub.history[i].pid = opp /\ pub.history[i].kind = kind}
      opp_doubts == Cardinality(Events("doubt"))
      opp_claims == Cardinality(Events("claim"))
      opp_evidence == sum_revealed(pub.history, opp)
      total == IF opp_doubts + opp_claims < 1 THEN 1 ELSE opp_doubts + opp_claims
      doubt_rate == Rat(opp_doubts, total)
      last_doubt == last_event(pub.history,
                               {i \in 1..Len(pub.history) : pub.history[i].kind = "doubt"})
      judged == last_doubt # None /\ pub.current_claim # None
      claimant == 1 - last_doubt[1].pid
      claim_true == winner = claimant
      bluffiness ==
        IF judged THEN bluffiness_after(agent.opponent_bluffiness, claimant = opp, claim_true)
        ELSE agent.opponent_bluffiness
      opp_doubted_this_round == opp_doubts >= 1
      new_fallback == IF opp_doubted_this_round /\ agent.opp_doubted_last_round
                      THEN 1 ELSE 0
  IN [agent EXCEPT
        !.fallback_rounds_left = IF left > new_fallback THEN left ELSE new_fallback,
        !.opponent_is_conservative = RLess(Rat(45, 100), doubt_rate) /\ opp_evidence < 2,
        !.opponent_bluffiness = bluffiness,
        !.opp_doubted_two_rounds_ago = agent.opp_doubted_last_round,
        !.opp_doubted_last_round = opp_doubted_this_round,
        !.fallback_trigger_events = IF new_fallback > 0 THEN @ + 1 ELSE @]

\* An agent of some other class derived from Agent: its act returns an
\* action of its choosing and it keeps the hook observe_round_end of Agent.
NewAgent == [kind |-> "agent"]

\* agent.observe_round_end(my_id, winner, last_obs) for the agent seated
\* with the given fields.
told(agent, my_id, winner, last_obs) ==
  IF agent.kind = "tom0" THEN observe_round_end(agent, my_id, winner, last_obs)
  ELSE IF agent.kind = "tom1"
  THEN tom1_observe_round_end(agent, my_id, winner, last_obs)
  ELSE agent

\* ------------------------------------------------------- agents at the table
\* A zero-order or a first-order agent, newly built, at each seat.
InitAct ==
  /\ Construct(1)
  /\ agents \in [Players -> {NewToM0, NewToM1}]
  /\ play = [pc |-> "idle"]

\* The estimator of the agent seated at pid.
estimate(agent, o, claim) ==
  IF agent.kind = "tom0" THEN prob_claim_true(o, claim)
  ELSE prob_claim_true_my_view(o, claim)

\* agents[pid].act(env._obs(pid)); ret is the action or what act raised.
Act ==
  \E pid \in Players :
    /\ public # None
    /\ agents[pid].kind # "none"
    /\ LET r == act(agents[pid], obs(Env, pid).obs)
       IN /\ agents' = [agents EXCEPT ![pid] = r.agent]
          /\ ret' = r.ret
    /\ UNCHANGED <<hands, public, scores, last_round_public, last_round_hands,
                   rounds_per_match, listed, play>>

\* The estimator of agents[pid] on env._obs(pid) and a claim.
ProbClaimTrue ==
  \E pid \in Players, claim \in Claim :
    /\ public # None
    /\ ret' = estimate(agents[pid], obs(Env, pid).obs, claim)
    /\ UNCHANGED <<hands, public, scores, last_round_public, last_round_hands,
                   rounds_per_match, listed, agents, play>>

\* One-round matches with the agents asked for estimates and actions.
NextAct == ResetMatch \/ StepDoubt \/ StepLegalAction \/ Act \/ ProbClaimTrue

SpecAct == InitAct /\ [][NextAct]_vars

\* A zero-order agent, newly built, at one seat of an environment for
\* one-round matches; the agent outlives the matches.
InitMemory ==
  /\ Construct(1)
  /\ \E seat \in Players :
       agents = [p \in Players |-> IF p = seat THEN NewToM0 ELSE [kind |-> "none"]]
  /\ play = [pc |-> "idle"]

\* agents[my_id].observe_round_end(my_id, winner, env.last_round_obs(my_id))
\* after a step that ended a round, with the winner that step returned.
ObserveRoundEnd ==
  \E my_id \in Players :
    /\ agents[my_id].kind = "tom0"
    /\ ret.call = "step" /\ ret.ok /\ ret.winner # None
    /\ agents' = [agents EXCEPT ![my_id] =
                    observe_round_end(@, my_id, ret.winner[1],
                                      last_round_obs(Env, my_id).obs)]
    /\ ret' = [ok |-> TRUE, call |-> "observe_round_end", my_id |-> my_id,
               winner |-> ret.winner]
    /\ UNCHANGED <<hands, public, scores, last_round_public, last_round_hands,
                   rounds_per_match, listed, play>>

\* One-round matches in which the zero-order agent is told of finished
\* rounds and asked for actions.
NextMemory == ResetMatch \/ StepLegalAction \/ ObserveRoundEnd \/ Act

SpecMemory == InitMemory /\ [][NextMemory]_vars

\* --------------------------------------------------------------- play_match
\* play_match(env, a0, a1) with any agents at the seats; play holds the
\* position in its body, its locals, and a record of the rounds that ended
\* (ended) and of the observe_round_end calls made at each seat (calls).
InitPlay ==
  /\ \E rounds \in 1..MaxRounds : Construct(rounds)
  /\ agents \in [Players -> {NewToM0, NewToM1, NewAgent}]
  /\ play = [pc |-> "idle"]

\* A variant that tells the agents of a finished round only while the match
\* goes on.
observes_unless_done(winner, done) == winner # None /\ ~done

\* "if winner is not None"
observes(winner, done) == winner # None

\* obs0, obs1 = env._obs(0), env._obs(1) on the fields e.
both_obs(e) == [p \in Players |-> obs(e, p).obs]

\* obs0, obs1 = env.reset_match(); done = False
PlayMatch ==
  \E k \in Shuffles :
    LET e == reset_match(Env, make_deck(k))
    IN /\ play.pc = "idle"
       /\ Install(e)
       /\ ret' = [ok |-> TRUE, call |-> "reset_match",
                  cleared |-> last_round_public # None]
       /\ listed' = [p \in Players |-> <<>>]
       /\ play' = [pc |-> "loop", obs |-> both_obs(e), done |-> FALSE,
                   action |-> None, winner |-> None, ended |-> <<>>,
                   calls |-> [p \in Players |-> <<>>]]
       /\ UNCHANGED agents

\* The actions an agent of another class may return.
Choices(pid) ==
  {a \in Offered(legal_actions(Env, pid)) \cup {Doubt} :
     a.type = "MakeClaim" => RoomForClaim}

\* while not done: pid = env.public.turn; action = agent.act(obs)
PlayAct ==
  LET pid == public[1].turn
  IN /\ play.pc = "loop"
     /\ ~play.done
     /\ IF agents[pid].kind = "agent"
        THEN \E a \in Choices(pid) :
               /\ agents' = agents
               /\ ret' = ActReturned(a)
               /\ play' = [play EXCEPT !.pc = "step", !.action = Some(a)]
        ELSE LET r == act(agents[pid], play.obs[pid])
             IN /\ agents' = [agents EXCEPT ![pid] = r.agent]
                /\ ret' = r.ret
                /\ play' = IF r.ret.ok
                           THEN [play EXCEPT !.pc = "step", !.action = Some(r.ret.action)]
                           ELSE [play EXCEPT !.pc = "raised"]
     /\ UNCHANGED <<hands, public, scores, last_round_public, last_round_hands,
                    rounds_per_match, listed>>

\* winner, done = env.step(pid, action); obs0, obs1 = env._obs(0), env._obs(1)
PlayStep ==
  LET pid == public[1].turn
      action == play.action[1]
  IN /\ play.pc = "step"
     /\ \E k \in (IF action.type = "Doubt" THEN Shuffles ELSE {0}) :
          LET r == step(Env, pid, action, make_deck(k))
          IN /\ Install(r.env)
             /\ ret' = r.ret
             /\ listed' = ListedAfter(r, pid, action)
             /\ play' =
                  IF ~r.ret.ok THEN [play EXCEPT !.pc = "raised"]
                  ELSE [play EXCEPT
                          !.pc = IF observes(r.ret.winner, r.ret.match_done)
                                 THEN "observe0" ELSE "loop",
                          !.obs = both_obs(r.env),
                          !.winner = r.ret.winner,
                          !.done = r.ret.match_done,
                          !.ended = IF r.ret.winner = None THEN @
                                    ELSE Append(@, [winner |-> r.ret.winner[1],
                                                    round_idx |-> public[1].round_idx,
                                                    doubter |-> pid])]
     /\ UNCHANGED agents

\* a0.observe_round_end(my_id=0, winner=winner, last_obs=env.last_round_obs(0))
\* and then the same for a1.
PlayObserveRoundEnd ==
  \E my_id \in Players :
    LET last_obs == last_round_obs(Env, my_id).obs
        winner == play.winner[1]
    IN /\ play.pc = (IF my_id = 0 THEN "observe0" ELSE "observe1")
       /\ agents' = [agents EXCEPT ![my_id] = told(@, my_id, winner, last_obs)]
       /\ ret' = [ok |-> TRUE, call |-> "observe_round_end", my_id |-> my_id,
                  winner |-> play.winner]
       /\ play' = [play EXCEPT
                     !.pc = IF my_id = 0 THEN "observe1" ELSE "loop",
                     !.calls[my_id] = Append(@, [winner |-> winner, last_obs |-> last_obs])]
       /\ UNCHANGED <<hands, public, scores, last_round_public, last_round_hands,
                      rounds_per_match, listed>>

\* return env.scores[0], env.scores[1]
PlayReturn ==
  /\ play.pc = "loop"
  /\ play.done
  /\ play' = [play EXCEPT !.pc = "returned"]
  /\ ret' = [ok |-> TRUE, call |-> "play_match", result |-> <<scores[0], scores[1]>>]
  /\ UNCHANGED <<hands, public, scores, last_round_public, last_round_hands,
                 rounds_per_match, listed, agents>>

NextPlay == PlayMatch \/ PlayAct \/ PlayStep \/ PlayObserveRoundEnd \/ PlayReturn

SpecPlay == InitPlay /\ [][NextPlay]_vars

\* ------------------------------------------------------ first-order traits
\* A first-order agent that has been through six rounds in which it doubted
\* a false claim of its opponent: six times 0.15.
SeasonedToM1 == [NewToM1 EXCEPT !.opponent_bluffiness = 90]

\* A match of TraitRounds rounds with a first-order agent at one seat.  The
\* agent is asked to act on each of its turns and told of every finished
\* round, in the order of play_match; the steps are taken by the caller,
\* which holds on when act raises.  play keeps whether the agent has been
\* asked on this turn, the policies of its acts in the live round, and the
\* doubter and the agent's policies of every finished round.
InitTraits ==
  /\ Construct(TraitRounds)
  /\ \E seat \in Players, a \in {NewToM1, SeasonedToM1} :
       agents = [p \in Players |-> IF p = seat THEN a ELSE [kind |-> "none"]]
  /\ play = [pc |-> "deal", asked |-> FALSE, policies |-> <<>>, winner |-> None,
             done |-> FALSE, past |-> <<>>]

\* The seat of the first-order agent.
Seat == CHOOSE p \in Players : agents[p].kind = "tom1"

\* obs0, obs1 = env.reset_match()
TraitsReset ==
  \E k \in Shuffles :
    /\ play.pc = "deal"
    /\ Install(reset_match(Env, make_deck(k)))
    /\ ret' = [ok |-> TRUE, call |-> "reset_match",
               cleared |-> last_round_public # None]
    /\ listed' = [p \in Players |-> <<>>]
    /\ play' = [play EXCEPT !.pc = "turn"]
    /\ UNCHANGED agents

\* action = agent.act(obs) on the agent's turn; the policy is the fallback
\* one when the call counted a fallback action.
TraitsAct ==
  LET r == act(agents[Seat], obs(Env, Seat).obs)
      policy == IF r.agent.fallback_actions_taken > agents[Seat].fallback_actions_taken
                THEN "fallback" ELSE "predictive"
  IN /\ play.pc = "turn"
     /\ public[1].turn = Seat
     /\ ~play.asked
     /\ agents' = [agents EXCEPT ![Seat] = r.agent]
     /\ ret' = r.ret
     /\ play' = [play EXCEPT !.asked = TRUE, !.policies = Append(@, policy)]
     /\ UNCHANGED <<hands, public, scores, last_round_public, last_round_hands,
                    rounds_per_match, listed>>

\* winner, done = env.step(pid, action) with an action legal_actions offers,
\* after the agent has been asked when the turn is its own.
TraitsStep ==
  LET pid == public[1].turn
  IN /\ play.pc = "turn"
     /\ pid = Seat => play.asked
     /\ \E action \in Offered(legal_actions(Env, pid)) :
          \E k \in (IF action.type = "Doubt" THEN Shuffles ELSE {0}) :
            LET r == step(Env, pid, action, make_deck(k))
            IN /\ action.type = "MakeClaim" => RoomForClaim
               /\ Install(r.env)
               /\ ret' = r.ret
               /\ listed' = ListedAfter(r, pid, action)
               /\ play' = IF r.ret.winner = None
                          THEN [play EXCEPT !.asked = FALSE]
                          ELSE [play EXCEPT
                                  !.pc = "tell", !.asked = FALSE,
                                  !.winner = r.ret.winner,
                                  !.done = r.ret.match_done,
                                  !.past = Append(@, [doubter |-> pid,
                                                      policies |-> play.policies])]
     /\ UNCHANGED agents

\* agent.observe_round_end(my_id, winner, env.last_round_obs(my_id))
TraitsTold ==
  /\ play.pc = "tell"
  /\ agents' = [agents EXCEPT ![Seat] =
                  told(@, Seat, play.winner[1], last_round_obs(Env, Seat).obs)]
  /\ ret' = [ok |-> TRUE, call |-> "observe_round_end", my_id |-> Seat,
             winner |-> play.winner]
  /\ play' = [play EXCEPT !.pc = IF play.done THEN "over" ELSE "turn",
                          !.policies = <<>>]
  /\ UNCHANGED <<hands, public, scores, last_round_public, last_round_hands,
                 rounds_per_match, listed>>

NextTraits == TraitsReset \/ TraitsAct \/ TraitsStep \/ TraitsTold

SpecTraits == InitTraits /\ [][NextTraits]_vars

\* ---------------------------------------------------------------- properties
HasPublic == public # None
Live == public[1]
HasClaim == HasPublic /\ Live.current_claim # None
Total(sc) == sc[0] + sc[1]

\* The last call was a step that accepted a Doubt.
DoubtAccepted == ret.call = "step" /\ ret.ok /\ ret.winner # None
\* The last call was a step that accepted a MakeClaim.
ClaimAccepted == ret.call = "step" /\ ret.ok /\ ret.winner = None
\* The last call was a step that raised.
StepRaised == ret.call = "step" /\ ~ret.ok

\* The claim events of a history, in order.
ClaimEvents(h) == LET IsClaim(ev) == ev.kind = "claim" IN SelectSeq(h, IsClaim)

\* C1: whenever a current claim exists, step(turn, Doubt) is accepted and ends
\* the round (it returns a winner, and either reports match_done or leaves a
\* fresh round), and exactly one player's score goes up by exactly 1 while
\* the other's stays as it was, whatever claims came before.
C1_DoubtScoresExactlyOne ==
  HasClaim =>
    \A k \in Shuffles :
      LET r == step(Env, Live.turn, Doubt, make_deck(k))
      IN /\ r.ret.ok
         /\ r.ret.winner # None
         /\ r.ret.match_done \/ r.env.public[1].history = <<>>
         /\ \E w \in Players :
              /\ r.env.scores[w] = scores[w] + 1
              /\ r.env.scores[1 - w] = scores[1 - w]

\* A Doubt has just been accepted on a round of MaxClaims claims.
C1_Witness ==
  /\ DoubtAccepted
  /\ NumClaims(last_round_public[1].history) = MaxClaims
  /\ Total(scores) = 1

\* The cards of both hands that are of category q or HUP, as (player, position).
Supporting(hs, q) ==
  {pos \in Players \X (1..HandSize) : hs[pos[1]][pos[2]] \in {q, HUP}}

\* C2: an accepted step(p, Doubt) returns as winner, and increments the score
\* of, the claimant 1-p iff the cards of both hands that are of the claimed
\* category or HUP number at least the claimed quantity, and the doubter p
\* otherwise.
C2_WinnerIsTruth ==
  HasClaim =>
    \A k \in Shuffles :
      LET p == Live.turn
          claim == Live.current_claim[1]
          r == step(Env, p, Doubt, make_deck(k))
          holds == Cardinality(Supporting(hands[1], claim.qstate)) >= claim.qty
          w == IF holds THEN 1 - p ELSE p
      IN /\ r.ret.ok
         /\ r.ret.winner = Some(w)
         /\ r.env.scores[w] = scores[w] + 1

\* A Doubt of a false claim has just been accepted: the doubter won, and the
\* claim would have held had the other categories counted.
C2_Witness ==
  /\ DoubtAccepted
  /\ LET h == last_round_public[1].history
         claim == last_round_public[1].current_claim[1]
     IN /\ ret.winner[1] = h[Len(h)].pid
        /\ Cardinality(Supporting(last_round_hands[1], claim.qstate)) < claim.qty

\* C3: in every reachable state the claims of the claim events of the live
\* history are strictly increasing in claim_strength order.
C3_ClaimsStrictlyIncrease ==
  HasPublic =>
    LET cl == ClaimEvents(Live.history)
    IN \A i \in 1..(Len(cl) - 1) :
         TupleGreater(claim_strength(cl[i + 1].claim), claim_strength(cl[i].claim))

\* A round with MaxClaims accepted claims, the last one just accepted.
C3_Witness ==
  /\ HasPublic
  /\ ClaimAccepted
  /\ Len(ClaimEvents(Live.history)) = MaxClaims

\* C4: a step(turn, MakeClaim) that raises leaves the hands, the public
\* state (claim, evidence, turn, round index, history), the scores and the
\* snapshot exactly as they were.
C4_RejectedClaimChangesNothing ==
  HasPublic =>
    \A c \in Claim, idxs \in RevealTuples :
      LET r == step(Env, Live.turn, MakeClaim(c, idxs), make_deck(0))
      IN ~r.ret.ok => r.env = Env

\* A MakeClaim has just been rejected at a reveal index after the loop had
\* collected a valid card from an earlier index.
C4_Witness ==
  /\ StepRaised
  /\ ret.kind = "ValueError"
  /\ ret.collected >= 1

\* C5: a step by the player whose turn it is not, and a Doubt when there is
\* no current claim, raise and leave every field of the environment as it
\* was.
C5_WrongTurnOrEarlyDoubtRejected ==
  HasPublic =>
    /\ \A a \in Actions, k \in Shuffles :
         LET r == step(Env, 1 - Live.turn, a, make_deck(k))
         IN ~r.ret.ok /\ r.env = Env
    /\ Live.current_claim = None =>
         \A k \in Shuffles :
           LET r == step(Env, Live.turn, Doubt, make_deck(k))
           IN ~r.ret.ok /\ r.env = Env

\* A Doubt has just been rejected for want of a claim.
C5_Witness ==
  /\ StepRaised
  /\ ret.kind = "AssertionError"
  /\ ret.msg = "Cannot doubt before any claim."
  /\ Live.history = <<>>
\* C6: every accepted step(p, MakeClaim) sets turn to 1-p; the claim events of
\* the live history are made by alternating players, the first of them by the
\* round's starting player; and an accepted Doubt that leaves the environment
\* in the same round leaves the turn where it was.
C6_TurnAlternates ==
  HasPublic =>
    /\ \A a \in Offered(legal_actions(Env, Live.turn)) :
         LET r == step(Env, Live.turn, a, make_deck(0))
         IN (a.type = "MakeClaim" /\ r.ret.ok)
              => r.env.public[1].turn = 1 - Live.turn
    /\ LET cl == ClaimEvents(Live.history)
       IN /\ Len(cl) >= 1 => cl[1].pid = Live.round_idx % 2
          /\ \A i \in 1..(Len(cl) - 1) : cl[i + 1].pid = 1 - cl[i].pid
    /\ HasClaim =>
         \A k \in Shuffles :
           LET r == step(Env, Live.turn, Doubt, make_deck(k))
           IN r.env.public[1].round_idx = Live.round_idx
                => r.env.public[1].turn = Live.turn

\* Two claims have been accepted in a round that player 1 started.
C6_Witness ==
  /\ HasPublic
  /\ ClaimAccepted
  /\ Live.round_idx = 1
  /\ Len(ClaimEvents(Live.history)) = 2
  /\ Live.turn = 1

\* A round as reset_round leaves it.
FreshRound(round_idx, turn) ==
  PublicState(None, [p \in Players |-> <<>>], turn, round_idx, <<>>)

\* C7: reset_match starts round 0 with turn 0, and an accepted Doubt that does
\* not end the match starts the round of the next index r with turn r mod 2,
\* no current claim, no evidence and no history; a round that has no event
\* yet has its starting player on turn.
C7_StartingPlayerAlternates ==
  /\ \A k \in Shuffles : reset_match(Env, make_deck(k)).public = Some(FreshRound(0, 0))
  /\ HasClaim =>
       \A k \in Shuffles :
         LET r == step(Env, Live.turn, Doubt, make_deck(k))
             next == Live.round_idx + 1
         IN ~r.ret.match_done =>
              r.env.public = Some(FreshRound(next, IF next % 2 = 0 THEN 0 ELSE 1))
  /\ (HasPublic /\ Live.history = <<>>) =>
       Live = FreshRound(Live.round_idx, IF Live.round_idx % 2 = 0 THEN 0 ELSE 1)

\* A Doubt has just started a round of odd index, with player 1 on turn.
C7_Witness ==
  /\ DoubtAccepted
  /\ ~ret.match_done
  /\ Live.round_idx % 2 = 1
  /\ Live.turn = 1
  /\ Live.history = <<>>

\* C8: after an accepted Doubt, last_round_obs(p) is the finished round as it
\* stood before the redeal (its index, final claim, evidence, history ending
\* with the doubt event, and p's hand of that round); and a step that is not
\* an accepted Doubt leaves what last_round_obs returns as it was.
C8_SnapshotIsFinishedRound ==
  HasPublic =>
    /\ HasClaim =>
         \A k \in Shuffles, p \in Players :
           LET d == Live.turn
               r == step(Env, d, Doubt, make_deck(k))
               o == last_round_obs(r.env, p)
               ev == PublicEvent(d, "doubt", Live.current_claim[1], 0)
           IN /\ o.ok
              /\ o.obs.my_id = p
              /\ o.obs.my_hand = hands[1][p]
              /\ o.obs.public =
                   PublicState(Live.current_claim, Live.revealed, d,
                               Live.round_idx, Append(Live.history, ev))
    /\ \A pid \in Players :
         \A a \in Offered(legal_actions(Env, pid)) \cup {Doubt} :
           LET r == step(Env, pid, a, make_deck(0))
           IN (a.type = "MakeClaim" \/ ~r.ret.ok)
                => \A p \in Players :
                     last_round_obs(r.env, p) = last_round_obs(Env, p)

\* A MakeClaim has been accepted in the round after the one the snapshot
\* holds, on hands that differ from the snapshot's.
C8_Witness ==
  /\ HasPublic
  /\ ClaimAccepted
  /\ last_round_public # None
  /\ Live.round_idx = last_round_public[1].round_idx + 1
  /\ hands # last_round_hands
  /\ LET h == last_round_public[1].history IN h[Len(h)].kind = "doubt"

\* C9: last_round_obs raises whenever no Doubt has been accepted since the
\* last reset_match (each accepted Doubt adds one to a score and reset_match
\* zeroes both), and it raises right after any reset_match, whatever snapshot
\* the environment held before.
C9_NoFinishedRoundNoObs ==
  /\ Total(scores) = 0 => \A p \in Players : ~last_round_obs(Env, p).ok
  /\ \A k \in Shuffles, p \in Players :
       ~last_round_obs(reset_match(Env, make_deck(k)), p).ok

\* reset_match has just cleared the snapshot of an earlier match.
C9_Witness ==
  /\ ret.call = "reset_match"
  /\ ret.cleared
  /\ last_round_public = None
  /\ ~last_round_obs(Env, 0).ok

\* C10: an accepted Doubt returns match_done exactly when it ends round
\* rounds_per_match - 1, and the scores then sum to rounds_per_match; an
\* accepted Doubt that returns match_done = FALSE leaves a fresh round whose
\* index is the number of rounds finished so far.
C10_MatchDoneAtLastRound ==
  DoubtAccepted =>
    IF ret.match_done
    THEN /\ Total(scores) = rounds_per_match
         /\ last_round_public[1].round_idx = rounds_per_match - 1
    ELSE /\ Total(scores) < rounds_per_match
         /\ Live.round_idx = Total(scores)
         /\ Live.round_idx = last_round_public[1].round_idx + 1
         /\ Live.history = <<>>

\* ------------------------------------------------------ evidence and reveals
\* The positions player p has listed in accepted MakeClaim steps of the round.
ListedBy(p) == UNION {listed[p][k] : k \in 1..Len(listed[p])}

\* How many entries of a list are the given card.
CountIn(list, card) == Cardinality({j \in 1..Len(list) : list[j] = card})

\* The claim events of player p in a history, in order.
ClaimEventsOf(h, p) ==
  LET IsMine(ev) == ev.kind = "claim" /\ ev.pid = p IN SelectSeq(h, IsMine)

\* C11: when the player to move lists again, in a further MakeClaim, a
\* position it has listed in an earlier accepted MakeClaim of the round, the
\* step is accepted if the claim is stronger, it leaves the evidence as it
\* was and logs revealed_count 0; the card of that position is in the
\* player's evidence once per listed position holding it, and the claim
\* event that first listed the position counted it.
C11_RepeatedRevealIsNoOp ==
  HasPublic =>
    LET p == Live.turn
        hand == hands[1][p]
        mine == ClaimEventsOf(Live.history, p)
    IN \A i \in ListedBy(p), c \in Claim :
         LET r == step(Env, p, MakeClaim(c, <<i>>), make_deck(0))
             after == r.env.public[1]
             card == hand[i + 1]
             first == CHOOSE k \in 1..Len(listed[p]) :
                        /\ i \in listed[p][k]
                        /\ \A j \in 1..(k - 1) : i \notin listed[p][j]
         IN /\ is_stronger(c, Live.current_claim[1]) => r.ret.ok
            /\ r.ret.ok =>
                 /\ after.revealed = Live.revealed
                 /\ after.history[Len(after.history)].revealed_count = 0
                 /\ CountIn(after.revealed[p], card) >= 1
                 /\ CountIn(after.revealed[p], card)
                      <= Cardinality({j \in ListedBy(p) : hand[j + 1] = card})
                 /\ mine[first].revealed_count >= 1

\* C12: in every round each listed position of a player's hand contributes
\* at most one entry to that player's evidence: no card is in the evidence
\* more often than listed positions hold it, the evidence is a sub-multiset
\* of the hand, and it is never longer than the hand.
C12_EvidenceWithinHand ==
  HasPublic =>
    \A p \in Players :
      LET hand == hands[1][p]
          evidence == Live.revealed[p]
      IN /\ \A card \in Card :
              /\ CountIn(evidence, card)
                   <= Cardinality({j \in ListedBy(p) : hand[j + 1] = card})
              /\ CountIn(evidence, card) <= CountIn(hand, card)
         /\ Len(evidence) <= Len(hand)

\* The card at position idx does not support a claim of category q.
Unsupporting(hand, idx, q) == hand[idx + 1] # q /\ hand[idx + 1] # HUP

\* C13: step(turn, MakeClaim(c, idxs)) raises whenever idxs lists an in-range
\* position that the player has not listed in an accepted MakeClaim of the
\* round and whose card is neither of category c nor HUP, whatever the
\* player's evidence already holds.
C13_FreshUnsupportingRevealRejected ==
  HasPublic =>
    LET p == Live.turn
        hand == hands[1][p]
    IN \A c \in Claim, idxs \in RevealTuples :
         (\E n \in 1..Len(idxs) :
            /\ idxs[n] \in 0..(Len(hand) - 1)
            /\ idxs[n] \notin ListedBy(p)
            /\ Unsupporting(hand, idxs[n], c.qstate))
         => ~step(Env, p, MakeClaim(c, idxs), make_deck(0)).ret.ok

\* C14: an accepted step(turn, MakeClaim(c, idxs)) appends to the player's
\* evidence exactly the cards of the listed positions that the player had
\* not listed earlier in the round, one entry per position, and logs a claim
\* event whose revealed_count is the number of those positions.
C14_AcceptedClaimAddsFreshPositions ==
  HasPublic =>
    LET p == Live.turn
        hand == hands[1][p]
        before == Live.revealed[p]
    IN \A c \in Claim, idxs \in RevealTuples :
         LET r == step(Env, p, MakeClaim(c, idxs), make_deck(0))
             after == r.env.public[1]
             fresh == Positions(idxs) \ ListedBy(p)
         IN r.ret.ok =>
              /\ SubSeq(after.revealed[p], 1, Len(before)) = before
              /\ \A card \in Card :
                   CountIn(after.revealed[p], card)
                     = CountIn(before, card)
                         + Cardinality({j \in fresh : hand[j + 1] = card})
              /\ after.history[Len(after.history)].revealed_count
                   = Cardinality(fresh)

\* --------------------------------------------------------------------- rules
\* C15: is_stronger is a strict total order on claims: is_stronger(a, a) is
\* false; of two distinct claims exactly one is stronger than the other, and
\* their strength keys differ; and is_stronger(a, b) with is_stronger(b, c)
\* gives is_stronger(a, c), for every claim c.
C15_IsStrongerStrictTotalOrder ==
  ret.call = "is_stronger" =>
    LET a == ret.new
        b == ret.old
    IN /\ a = b => ~ret.result
       /\ a # b => (ret.result <=> ~is_stronger(b, a))
       /\ a # b => claim_strength(a) # claim_strength(b)
       /\ \A c \in RuleClaim : (ret.result /\ is_stronger(b, c)) => is_stronger(a, c)

\* is_stronger has just ranked n EMPTY above 2n ALIVE, two claims of equal
\* effective quantity.
C15_Witness ==
  /\ ret.call = "is_stronger"
  /\ ret.new.qstate = EMPTY
  /\ ret.old.qstate = ALIVE
  /\ ret.old.qty = 2 * ret.new.qty
  /\ ret.result

\* C16: claim_strength returns the effective quantity (2*qty for EMPTY, qty
\* for ALIVE and DEAD) and the tier (DEAD 0, ALIVE 1, EMPTY 2), and
\* is_stronger compares the effective quantities first and the tiers on a
\* tie; so n EMPTY is stronger than 2n ALIVE and 2n DEAD, 2n+1 DEAD is
\* stronger than n EMPTY, and n ALIVE is stronger than n DEAD.
C16_StrengthByEffectiveQuantityThenTier ==
  LET effective(c) == IF c.qstate = EMPTY THEN 2 * c.qty ELSE c.qty
      tier(c) == CASE c.qstate = DEAD -> 0 [] c.qstate = ALIVE -> 1
                   [] c.qstate = EMPTY -> 2
  IN /\ ret.call = "claim_strength" =>
          ret.result = <<effective(ret.c), tier(ret.c)>>
     /\ ret.call = "is_stronger" =>
          LET new == ret.new
              old == ret.old
          IN /\ ret.result <=>
                  \/ effective(new) > effective(old)
                  \/ effective(new) = effective(old) /\ tier(new) > tier(old)
             /\ (new.qstate = EMPTY /\ old.qstate \in {ALIVE, DEAD}
                   /\ old.qty = 2 * new.qty) => ret.result
             /\ (new.qstate = DEAD /\ old.qstate = EMPTY
                   /\ new.qty = 2 * old.qty + 1) => ret.result
             /\ (new.qstate = ALIVE /\ old.qstate = DEAD
                   /\ new.qty = old.qty) => ret.result

\* is_stronger has just ranked 5 DEAD above 2 EMPTY.
C16_Witness ==
  /\ ret.call = "is_stronger"
  /\ ret.new = [qty |-> 5, qstate |-> DEAD]
  /\ ret.old = [qty |-> 2, qstate |-> EMPTY]
  /\ ret.result

\* C17: check_claim_is_true(claim, hands) is true exactly when the cards of
\* the claimed category in both hands plus the HUP cards in both hands number
\* at least claim.qty; cards of the other two categories do not count.
C17_ClaimTrueIffCategoryPlusHup ==
  ret.call = "check_claim_is_true" =>
    LET table == hands[1][0] \o hands[1][1]
    IN ret.result <=>
         CountIn(table, ret.claim.qstate) + CountIn(table, HUP) >= ret.claim.qty

\* A claim of 2 has just been found true on one card of its category in the
\* second hand and one HUP, the other cards being of other categories.
C17_Witness ==
  /\ ret.call = "check_claim_is_true"
  /\ ret.result
  /\ ret.claim.qty = 2
  /\ CountIn(hands[1][1], ret.claim.qstate) = 1
  /\ CountIn(hands[1][0], ret.claim.qstate) = 0
  /\ CountIn(hands[1][0] \o hands[1][1], HUP) = 1

\* ------------------------------------------------------------- legal actions
\* C18: legal_actions(p) holds no Doubt when there is no current claim and
\* exactly one, before the claims, when there is one; its MakeClaim entries
\* are, for each claim with quantity 1..12 that is stronger than the current
\* claim (each of the 36 claims when there is none) and for no other claim,
\* exactly two: one with an empty reveal and one whose reveal lists, once
\* each, the positions of p's hand holding the claimed category or HUP.
C18_LegalActionsAreDoubtAndStrongerClaims ==
  HasPublic =>
    \A p \in Players :
      LET list == legal_actions(Env, p)
          hand == hands[1][p]
          base == Live.current_claim
          doubts == {n \in 1..Len(list) : list[n].type = "Doubt"}
          legal == {c \in [qty : 1..12, qstate : QState] :
                      base = None \/ is_stronger(c, base[1])}
          entries(c) == {n \in 1..Len(list) :
                           list[n].type = "MakeClaim" /\ list[n].claim = c}
          matching(c) == {i \in 0..(Len(hand) - 1) :
                            hand[i + 1] = c.qstate \/ hand[i + 1] = HUP}
      IN /\ doubts = (IF base = None THEN {} ELSE {1})
         /\ base = None => Cardinality(legal) = 36
         /\ Len(list) = Cardinality(doubts) + 2 * Cardinality(legal)
         /\ \A n \in 1..Len(list) : list[n].type = "MakeClaim" => list[n].claim \in legal
         /\ \A c \in legal :
              LET es == entries(c)
                  all == matching(c)
              IN /\ Cardinality(es) = 2
                 /\ \E m \in es :
                      /\ list[m].reveal_idxs = <<>>
                      /\ \A n \in es \ {m} :
                           /\ Positions(list[n].reveal_idxs) = all
                           /\ Len(list[n].reveal_idxs) = Cardinality(all)

\* A claim stands and the player to move, who holds a HUP card, has just been
\* answered by a step taken from legal_actions.
C18_Witness ==
  /\ HasClaim
  /\ ClaimAccepted
  /\ \E i \in 1..Len(hands[1][Live.turn]) : hands[1][Live.turn][i] = HUP

\* The match has played all its rounds.
MatchOver == Total(scores) >= rounds_per_match

\* C19: while the match is not over, step(turn, a) is accepted for every
\* action a that legal_actions(turn) returns, whatever the player's evidence
\* already holds and whichever deck a Doubt deals next.
C19_LegalActionsAreAccepted ==
  (HasPublic /\ ~MatchOver) =>
    LET p == Live.turn
        list == legal_actions(Env, p)
    IN \A n \in 1..Len(list) :
         \A k \in (IF list[n].type = "Doubt" THEN Shuffles ELSE {0}) :
           step(Env, p, list[n], make_deck(k)).ret.ok

\* A claim stands in a running match and the player to move has listed
\* positions earlier in the round, so its maximal reveals list them again.
C19_Witness ==
  /\ HasClaim
  /\ ~MatchOver
  /\ ClaimAccepted
  /\ ListedBy(Live.turn) # {}

\* -------------------------------------------------------------- observations
\* A hand that holds every card of an evidence list.
Holds(hand, evidence) ==
  \A card \in Card : CountIn(evidence, card) <= CountIn(hand, card)

\* C20: the observations _obs(p) and last_round_obs(p) do not change when the
\* opponent's hand, of the live round or of the finished round, is replaced
\* by any other hand that holds the cards the opponent has revealed.
C20_ObservationHidesOpponentHand ==
  \A p \in Players, h \in RuleHands :
    LET q == 1 - p
        live == [Env EXCEPT !.hands = Some([hands[1] EXCEPT ![q] = h])]
        last == [Env EXCEPT !.last_round_hands =
                              Some([last_round_hands[1] EXCEPT ![q] = h])]
    IN /\ (HasPublic /\ Holds(h, Live.revealed[q])) =>
            /\ obs(live, p) = obs(Env, p)
            /\ last_round_obs(live, p) = last_round_obs(Env, p)
       /\ (last_round_public # None /\ Holds(h, last_round_public[1].revealed[q])) =>
            /\ obs(last, p) = obs(Env, p)
            /\ last_round_obs(last, p) = last_round_obs(Env, p)

\* A player has just been handed its observation while the opponent has both
\* revealed and unrevealed cards.
C20_Witness ==
  /\ ret.call = "_obs"
  /\ ret.ok
  /\ Live.revealed[1 - ret.obs.my_id] # <<>>
  /\ Len(Live.revealed[1 - ret.obs.my_id]) < Len(hands[1][1 - ret.obs.my_id])
\* -------------------------------------------------------------------- agents
\* C21: for every observation the environment produces for the player whose
\* turn it is, act of the zero-order and of the first-order agent returns an
\* action that step accepts: Doubt only when a current claim exists, and
\* otherwise a MakeClaim whose claim is strictly stronger than the current
\* one (any claim when there is none) and whose reveal indices are in range
\* and support the claim.
C21_ActReturnsAcceptedAction ==
  \A p \in Players :
    (HasPublic /\ Live.turn = p /\ agents[p].kind \in {"tom0", "tom1"}) =>
      LET o == obs(Env, p).obs
          r == act(agents[p], o).ret
      IN /\ r.ok
         /\ step(Env, p, r.action, make_deck(0)).ret.ok
         /\ r.action.type = "Doubt" => HasClaim
         /\ r.action.type = "MakeClaim" =>
              /\ HasClaim => is_stronger(r.action.claim, Live.current_claim[1])
              /\ \A n \in 1..Len(r.action.reveal_idxs) :
                   LET idx == r.action.reveal_idxs[n]
                   IN /\ idx \in 0..(HandSize - 1)
                      /\ o.my_hand[idx + 1] \in {r.action.claim.qstate, HUP}

\* The cards of a list that are of category q or HUP.
SupportIn(cards, q) == Cardinality({j \in 1..Len(cards) : cards[j] \in {q, HUP}})

\* C24: for every observation the environment produces and every claim, the
\* agents' estimate is exactly 1 when the supporting cards (claimed category
\* or HUP) among the own hand and the opponent's revealed cards number at
\* least the claimed quantity, and exactly 0 when the number still needed
\* exceeds the opponent's unrevealed slots.
C24_EstimateCertainWhenDecided ==
  \A p \in Players, claim \in Claim :
    (HasPublic /\ agents[p].kind \in {"tom0", "tom1"}) =>
      LET o == obs(Env, p).obs
          e == estimate(agents[p], o, claim)
          opp_revealed == Live.revealed[1 - p]
          support == SupportIn(hands[1][p] \o opp_revealed, claim.qstate)
          unrevealed == HAND_SIZE - Len(opp_revealed)
      IN /\ support >= claim.qty => e.ok /\ REq(e.result, Rat(1, 1))
         /\ claim.qty - support > unrevealed => e.ok /\ REq(e.result, Rat(0, 1))

\* C25: on the public state as the environment maintains it, the estimator
\* completes and its result is the hypergeometric tail for known = own hand
\* plus the opponent's revealed cards, n = HAND_SIZE - (opponent's revealed
\* cards), N = DECK_SIZE - |known| and K = (deck count of the category + HUP)
\* - (supporting cards in known) clamped to [0, N]; the opponent's
\* unrevealed cards have no part in it.
C25_EstimateCompletesOnEnvState ==
  \A p \in Players, claim \in Claim :
    (HasPublic /\ agents[p].kind \in {"tom0", "tom1"}) =>
      LET o == obs(Env, p).obs
          e == estimate(agents[p], o, claim)
          opp_revealed == Live.revealed[1 - p]
          known == hands[1][p] \o opp_revealed
          support == SupportIn(known, claim.qstate)
          n == HAND_SIZE - Len(opp_revealed)
          N == DECK_SIZE - Len(known)
          K0 == DECK_COUNTS[claim.qstate] + DECK_COUNTS[HUP] - support
          K == IF K0 < 0 THEN 0 ELSE IF K0 > N THEN N ELSE K0
      IN /\ e.ok
         /\ (claim.qty - support > 0 /\ n > 0) =>
              REq(e.result, hypergeom_p_geq(N, K, n, claim.qty - support))

\* ------------------------------------------------------------------- history
\* C26: within a round every accepted step appends exactly one event to the
\* public history (a claim event with the actor and the claim for MakeClaim,
\* a doubt event with the doubter and the doubted claim for Doubt) and leaves
\* the earlier events as they were; a rejected step appends nothing; the live
\* history is emptied only when a new round starts; and a finished round's
\* snapshot history holds exactly one doubt event, as its last element.
C26_HistoryAppendOnly ==
  /\ HasPublic =>
       \A pid \in Players :
         \A a \in Offered(legal_actions(Env, pid)) \cup {Doubt} :
           LET r == step(Env, pid, a, make_deck(0))
               h == Live.history
           IN IF ~r.ret.ok THEN r.env.public[1].history = h
              ELSE IF a.type = "MakeClaim"
              THEN LET h2 == r.env.public[1].history
                   IN /\ Len(h2) = Len(h) + 1
                      /\ SubSeq(h2, 1, Len(h)) = h
                      /\ h2[Len(h2)].kind = "claim"
                      /\ h2[Len(h2)].pid = pid
                      /\ h2[Len(h2)].claim = a.claim
              ELSE /\ r.env.last_round_public[1].history =
                        Append(h, PublicEvent(pid, "doubt", Live.current_claim[1], 0))
                   /\ IF r.ret.match_done
                      THEN r.env.public[1].history = r.env.last_round_public[1].history
                      ELSE /\ r.env.public[1].history = <<>>
                           /\ r.env.public[1].round_idx = Live.round_idx + 1
  /\ last_round_public # None =>
       LET h == last_round_public[1].history
       IN /\ Len(h) >= 1
          /\ h[Len(h)].kind = "doubt"
          /\ \A i \in 1..(Len(h) - 1) : h[i].kind # "doubt"

\* C27: once step has returned match_done, the match is terminal: until
\* reset_match no step (Doubt or MakeClaim) is accepted or changes the
\* scores, so scores[0] + scores[1] never exceeds rounds_per_match.
C27_MatchDoneIsTerminal ==
  /\ Total(scores) <= rounds_per_match
  /\ (HasPublic /\ MatchOver) =>
       \A pid \in Players :
         \A a \in Offered(legal_actions(Env, pid)) \cup {Doubt} :
           LET r == step(Env, pid, a, make_deck(0))
           IN ~r.ret.ok /\ r.env.scores = scores

\* -------------------------------------------------------------- round memory
\* The history of the finished round's snapshot.
SnapshotHistory == last_round_public[1].history

\* The agent at seat p has just been told of the finished round.
Told(p) == ret.ok /\ ret.call = "observe_round_end" /\ ret.my_id = p

\* The evidence counted in a sequence of events.
RECURSIVE RevealedTotal(_)
RevealedTotal(evs) ==
  IF evs = <<>> THEN 0 ELSE evs[1].revealed_count + RevealedTotal(Tail(evs))

\* The memory records the doubter and the opponent's evidence of the round
\* in the snapshot, seen from seat p.
RemembersRound(memory, p) ==
  LET h == SnapshotHistory
  IN /\ memory # None
     /\ memory[1].opponent_doubted <=> (h[Len(h)].kind = "doubt" /\ h[Len(h)].pid = 1 - p)
     /\ memory[1].opponent_evidence_revealed = RevealedTotal(ClaimEventsOf(h, 1 - p))

\* C28: after the zero-order agent's observe_round_end on a finished round's
\* snapshot, its memory holds facts of that round only: opponent_doubted is
\* true iff the opponent was the player whose Doubt ended the round, and
\* opponent_evidence_revealed is the sum of revealed_count over the
\* opponent's claim events of the round; what the memory held before has no
\* part in it.
C28_MemoryIsOfLastRoundOnly ==
  \A p \in Players :
    agents[p].kind = "tom0" =>
      /\ Told(p) => RemembersRound(agents[p].last_memory, p)
      /\ DoubtAccepted =>
           LET last_obs == last_round_obs(Env, p).obs
               after == observe_round_end(agents[p], p, ret.winner[1], last_obs)
           IN /\ RemembersRound(after.last_memory, p)
              /\ after = observe_round_end(NewToM0, p, ret.winner[1], last_obs)

\* The agent has just been told of a round of two claims that its opponent
\* opened with evidence and ended by doubting the agent's claim.
C28_Witness ==
  \E p \in Players :
    /\ agents[p].kind = "tom0"
    /\ Told(p)
    /\ agents[p].last_memory[1].opponent_doubted
    /\ agents[p].last_memory[1].opponent_evidence_revealed >= 1
    /\ Len(SnapshotHistory) = 3

\* C29: after the zero-order agent's observe_round_end, opponent_last_claim
\* is the last claim the opponent made in the finished round and
\* opponent_last_claim_was_true is the truth value of that claim, also in
\* rounds that the opponent ended by doubting the agent's own claim.
C29_MemoryHoldsOpponentsLastClaim ==
  \A p \in Players :
    (agents[p].kind = "tom0" /\ Told(p)) =>
      LET theirs == ClaimEventsOf(SnapshotHistory, 1 - p)
          memory == agents[p].last_memory[1]
      IN IF theirs = <<>> THEN memory.opponent_last_claim = None
         ELSE LET claim == theirs[Len(theirs)].claim
              IN /\ memory.opponent_last_claim = Some(claim)
                 /\ memory.opponent_last_claim_was_true =
                      Some(check_claim_is_true(claim, last_round_hands[1]))

Playing == play.pc # "idle"

\* The k-th observe_round_end call at seat p was made with the winner of the
\* k-th finished round and with that seat's observation of that round's
\* snapshot, which ends with the Doubt that ended the round.
CallIsOfRound(p, k) ==
  LET call == play.calls[p][k]
      round == play.ended[k]
      h == call.last_obs.public.history
  IN /\ call.winner = round.winner
     /\ call.last_obs.my_id = p
     /\ call.last_obs.public.round_idx = round.round_idx
     /\ round.round_idx = k - 1
     /\ h # <<>>
     /\ h[Len(h)].kind = "doubt"
     /\ h[Len(h)].pid = round.doubter
     /\ k = Len(play.ended) => call.last_obs = last_round_obs(Env, p).obs

\* C22: in play_match, for every finished round, the last round of the match
\* included, each agent's observe_round_end is called exactly once, with the
\* winner of that round and last_round_obs for that round, after the Doubt
\* that ended it and before any agent is asked to act in the next round (or
\* play_match returns).
C22_ToldOncePerFinishedRound ==
  Playing =>
    /\ Len(play.ended) = Total(scores)
    /\ play.pc = "returned" => Len(play.ended) = rounds_per_match
    /\ \A p \in Players :
         LET n == Len(play.calls[p])
             pending == IF play.pc = "observe0" \/ (play.pc = "observe1" /\ p = 1)
                        THEN 1 ELSE 0
         IN /\ n = Len(play.ended) - pending
            /\ \A k \in 1..n : CallIsOfRound(p, k)

\* play_match has returned from a match of MaxRounds rounds, and each agent
\* was told of each of them.
C22_Witness ==
  /\ play.pc = "returned"
  /\ rounds_per_match = MaxRounds
  /\ \A p \in Players : Len(play.calls[p]) = MaxRounds

\* C23: a match driven by play_match with any pairing of the zero-order and
\* first-order agents terminates: play_match raises nothing, every round
\* ends in a Doubt after at most 36 accepted claims, and play_match returns
\* after exactly rounds_per_match rounds.
C23_AgentsPlayMatchToItsEnd ==
  (Playing /\ \A p \in Players : agents[p].kind \in {"tom0", "tom1"}) =>
    /\ play.pc # "raised"
    /\ NumClaims(Live.history) <= 36
    /\ play.pc = "returned" =>
         /\ Len(play.ended) = rounds_per_match
         /\ Total(scores) = rounds_per_match

\* -------------------------------------------------------- first-order traits
\* A first-order agent is seated and a round has just ended that it has not
\* yet been told of.
RoundToTell == play.pc = "tell"

\* The first-order agent's fields after it is told of the round just ended.
AfterTold ==
  tom1_observe_round_end(agents[Seat], Seat, play.winner[1],
                         last_round_obs(Env, Seat).obs)

\* The player whose Doubt ended the round just finished, and whether the
\* claim it doubted holds on the hands of that round.
LastDoubter == SnapshotHistory[Len(SnapshotHistory)].pid
DoubtedClaimHolds ==
  check_claim_is_true(last_round_public[1].current_claim[1], last_round_hands[1])

\* C31: the first-order agent's opponent_bluffiness stays within [0, 1]
\* (0..100 hundredths); observe_round_end raises it by 0.15, capped at 1,
\* exactly when the doubted claim was the opponent's and false, lowers it by
\* 0.08, floored at 0, exactly when the doubted claim was the opponent's and
\* true, and leaves it as it was when the opponent was the doubter.
C31_BluffinessFollowsDoubtedClaims ==
  \A p \in Players :
    agents[p].kind = "tom1" =>
      /\ agents[p].opponent_bluffiness \in 0..100
      /\ RoundToTell =>
           LET before == agents[p].opponent_bluffiness
               after == AfterTold.opponent_bluffiness
           IN /\ after \in 0..100
              /\ after =
                   IF LastDoubter = 1 - p THEN before
                   ELSE IF ~DoubtedClaimHolds
                   THEN (IF before + 15 > 100 THEN 100 ELSE before + 15)
                   ELSE (IF before - 8 < 0 THEN 0 ELSE before - 8)

\* The agent has just been told of a round in which it doubted a false claim
\* of its opponent, and its estimate stands at the cap.
C31_Witness ==
  /\ ret.call = "observe_round_end"
  /\ agents[ret.my_id].kind = "tom1"
  /\ agents[ret.my_id].opponent_bluffiness = 100
  /\ LastDoubter = ret.my_id
  /\ ~DoubtedClaimHolds

\* The opponent of the first-order agent was the doubter in the k-th
\* finished round of the match.
OppDoubted(k) == k \in 1..Len(play.past) /\ play.past[k].doubter = 1 - Seat

\* The agent took a fallback action in the k-th finished round.
FellBack(k) ==
  \E n \in 1..Len(play.past[k].policies) : play.past[k].policies[n] = "fallback"

\* C33: the first-order agent's fallback_rounds_left is always 0 or 1; act
\* never changes it; observe_round_end lowers it only at the end of a round
\* in which the agent took a fallback action; and a trigger (the opponent
\* doubting in the two rounds last finished) yields exactly one fallback
\* round: every act of the round that follows is a fallback action, and
\* after that round the count is 1 again only on a new trigger.
C33_FallbackUsedUpOncePerTrigger ==
  \A p \in Players :
    agents[p].kind = "tom1" =>
      LET left == agents[p].fallback_rounds_left
          n == Len(play.past)
      IN /\ left \in {0, 1}
         /\ (play.pc = "turn" /\ Live.turn = p) =>
              act(agents[p], obs(Env, p).obs).agent.fallback_rounds_left = left
         /\ play.pc = "turn" =>
              /\ left = (IF OppDoubted(n) /\ OppDoubted(n - 1) THEN 1 ELSE 0)
              /\ \A k \in 1..Len(play.policies) :
                   play.policies[k] = (IF left = 1 THEN "fallback" ELSE "predictive")
         /\ RoundToTell =>
              /\ AfterTold.fallback_rounds_left \in {0, 1}
              /\ AfterTold.fallback_rounds_left =
                   (IF OppDoubted(n) /\ OppDoubted(n - 1) THEN 1 ELSE 0)
              /\ AfterTold.fallback_rounds_left < left => FellBack(n)
              /\ FellBack(n) <=> left = 1

\* The agent has just been told of its fallback round, which its opponent
\* did not end, and the count is back at 0.
C33_Witness ==
  /\ ret.call = "observe_round_end"
  /\ agents[ret.my_id].kind = "tom1"
  /\ Len(play.past) = 3
  /\ OppDoubted(1) /\ OppDoubted(2) /\ ~OppDoubted(3)
  /\ FellBack(3)
  /\ agents[ret.my_id].fallback_rounds_left = 0
  /\ agents[ret.my_id].fallback_trigger_events = 1

====
